---- MODULE Spec2Model ----
(***************************************************************************)
(* Axeon control plane: IP address management (IPAM), the asynchronous job *)
(* engine (job store, dispatch queue, worker pool, target locks,           *)
(* maintenance sweep), admission control (global quota), the startup       *)
(* reconciliation of the instances table, the event bus, the maintenance   *)
(* scheduler and the schema migrations.                                    *)
(*                                                                         *)
(* The specifications share the variables:                                 *)
(*   SpecAlloc  racing allocators, one process per AllocateIP call, each   *)
(*              SQL statement of tryAllocateInNetwork a step of its own;   *)
(*   SpecIPAM   non-racing IPAM calls, each call one step;                 *)
(*   SpecNet    SpecIPAM over three pools, with DeleteNetwork calls;       *)
(*   SpecStats  SpecIPAM beside a pool of any prefix length, for the       *)
(*              figures of GetNetworksWithStats;                           *)
(*   SpecJobs   the worker pool over two targets, the clock standing still;*)
(*   SpecPool   SpecJobs with three jobs and executions that time out;     *)
(*   SpecJobsFair  SpecJobs without aborts, every worker step fair;        *)
(*   SpecLife   the jobs of one target under workers, clock and sweep;     *)
(*   SpecLifeFair  SpecLife without aborts, every step fair;               *)
(*   SpecAdmit  the quota-checked handlers, the workers and the provider;  *)
(*   SpecAccept SpecAdmit with the DELETE /instances handler;              *)
(*   SpecNetRace  SpecAlloc with DeleteNetwork run statement by statement; *)
(*   SpecHostBits  SpecIPAM over one pool whose CIDR has host bits set;    *)
(*   SpecSync   RunStartupSync over stores and provider listings;          *)
(*   SpecBus    publishers and the consumer of the event bus;              *)
(*   SpecSched  the maintenance scheduler, its ticker and its context;     *)
(*   SpecUsage  SpecIPAM from an empty lease table, over pools of small    *)
(*              prefix lengths and over overlapping pools;                 *)
(*   SpecMigrate  RunMigrations and RollbackMigration on a fresh database. *)
(***************************************************************************)
EXTENDS Integers, Sequences, FiniteSets, TLC

VARIABLES
    \* --- IPAM (tables networks, ip_leases)
    networks,   \* set of Network rows
    leases,     \* ip_leases: function ip -> [instance_name, allocated_at, network_id]
    alloc,      \* per allocator process: the locals of AllocateIP / tryAllocateInNetwork
    \* --- IPAM history (not program state)
    live,       \* addresses returned by an allocation and not released since
    released,   \* some ReleaseIP has cleared an owner
    conflict,   \* some INSERT hit a row committed after its SELECT EXISTS
    nAlloc,     \* allocation calls made so far in SpecIPAM
    lastIP,     \* what the last IPAM call of SpecIPAM / SpecNet returned
    pristine,   \* SpecIPAM: one pool, no lease at start, only AllocateIP calls so far
    \* --- job engine
    jobs,       \* jobs table: function id -> row, NoRow when absent
    queue,      \* the bounded dispatch channel (job ids)
    delayed,    \* ids whose delayed re-dispatch timer is pending
    locks,      \* targets whose lock is held
    workers,    \* per worker: position and job in hand
    now,        \* wall clock, minutes
    \* --- provider and admission
    instances,  \* live instances of the runtime provider: name -> [cpu, ram]
    resp,       \* last HTTP response of a job-creating handler
    \* --- reconciliation, event bus, maintenance scheduler
    store,      \* instances table: function name -> Instance row
    lxd,        \* what the runtime provider lists and reports at startup
    bus,        \* events.GlobalBus and what its consumer has received
    sched,      \* the goroutine of StartMaintenanceScheduler, its ticker and context
    \* --- schema migrations
    schema      \* schema_migrations, the schema objects, the locals of a migration run

ipamVars == <<networks, leases, alloc, live, released, conflict, nAlloc, lastIP, pristine>>
jobVars  == <<jobs, queue, delayed, locks, workers, now>>
admVars  == <<instances, resp>>
svcVars  == <<store, lxd, bus, sched, schema>>
vars     == <<networks, leases, alloc, live, released, conflict, nAlloc, lastIP, pristine,
              jobs, queue, delayed, locks, workers, now, instances, resp,
              store, lxd, bus, sched, schema>>

\* ------------------------------------------------------------- bounds
\* number of allocator processes (calls) that race in SpecAlloc
NumCalls == 2
\* number of IPAM calls that allocate in one run of SpecIPAM
MaxAllocs == 6
\* attempt ceiling of a worker (provider calls per execution of a job)
MaxAttempts == 2
\* capacity of the dispatch channel
QueueCap == 1

\* ------------------------------------------------------------- IPAM data
NULL == "NULL"
\* error of tryAllocateInNetwork when the scan ends (part_001:874)
PoolFull == "POOL_FULL"
\* error of AllocateIP when every candidate pool failed (part_001:690)
PoolExhausted == "no IP addresses available in any pool"
\* error of AllocateInNetwork when the network row is missing (part_001:699)
NetworkNotFound == "network not found"

Names == {"vm1", "vm2"}

\* the empty string a failed call returns as its address
NoAddr == <<>>
\* what a call returns: (ip, nil) or ("", err)
Ok(ip) == [ok |-> TRUE, ip |-> ip, err |-> ""]
Fail(err) == [ok |-> FALSE, ip |-> NoAddr, err |-> err]
NoResult == [ok |-> FALSE, ip |-> NoAddr, err |-> ""]

\* 10.0.0.0 as uint32
Net10 == 10 * 16777216

\* net.IP.String() of the 4 bytes written big-endian
IntToIP(nn) ==
    <<nn \div 16777216, (nn \div 65536) % 256, (nn \div 256) % 256, nn % 256>>

\* start is the address as written in the CIDR (net.ParseCIDR returns the
\* host address, not the masked one); end is (start & mask) | ^mask.
CidrToRange(cidr) ==
    LET size  == 2 ^ (32 - cidr.ones)
        start == cidr.ip
        end   == (start - (start % size)) + (size - 1)
    IN  <<start, end>>

TotalIPsLessGateway(cidr) ==
    LET t == 2 ^ (32 - cidr.ones)
    IN  IF t > 2 THEN t - 4 ELSE t

\* TotalIPs of GetNetworksWithStats
TotalIPs(cidr) ==
    LET t == 2 ^ (32 - cidr.ones)
    IN  IF t > 2 THEN t - 3 ELSE t

Row(name, at, id) == [instance_name |-> name, allocated_at |-> at, network_id |-> id]

\* SELECT ip FROM ip_leases WHERE network_id = $1 AND instance_name IS NOT NULL
UsedIn(ls, id) ==
    {ip \in DOMAIN ls : ls[ip].network_id = id /\ ls[ip].instance_name # NULL}

\* SELECT EXISTS(SELECT 1 FROM ip_leases WHERE ip = $1)
ExistsGlobal(ls, ip) == ip \in DOMAIN ls

\* UPDATE ip_leases SET instance_name, allocated_at, network_id
\*   WHERE ip = $4 AND instance_name IS NULL     (ok iff one row affected)
UpdateClaimUnguarded(ls, ip, name, id, t) ==
    IF ip \in DOMAIN ls
    THEN [ok |-> TRUE, ls |-> [ls EXCEPT ![ip] = Row(name, t, id)]]
    ELSE [ok |-> FALSE, ls |-> ls]

UpdateClaimEveryFree(ls, ip, name, id, t) ==
    IF ip \in DOMAIN ls /\ ls[ip].instance_name = NULL
    THEN [ok |-> TRUE,
          ls |-> [x \in DOMAIN ls |->
                    IF ls[x].instance_name = NULL THEN Row(name, t, id) ELSE ls[x]]]
    ELSE [ok |-> FALSE, ls |-> ls]

UpdateClaim(ls, ip, name, id, t) ==
    IF ip \in DOMAIN ls /\ ls[ip].instance_name = NULL
    THEN [ok |-> TRUE, ls |-> [ls EXCEPT ![ip] = Row(name, t, id)]]
    ELSE [ok |-> FALSE, ls |-> ls]

\* INSERT INTO ip_leases (ip, instance_name, allocated_at, network_id); ip is
\* the primary key, so the insert fails when a row with that ip is committed.
InsertLeaseUpsert(ls, ip, name, id, t) ==
    [ok |-> TRUE,
     ls |-> [x \in DOMAIN ls \cup {ip} |-> IF x = ip THEN Row(name, t, id) ELSE ls[x]]]

InsertLease(ls, ip, name, id, t) ==
    IF ip \in DOMAIN ls
    THEN [ok |-> FALSE, ls |-> ls]
    ELSE [ok |-> TRUE, ls |-> ls @@ (ip :> Row(name, t, id))]

\* the write of the claim-or-insert transaction and its commit
WriteLease(ls, existsGlobal, ip, name, id, t) ==
    IF existsGlobal THEN UpdateClaim(ls, ip, name, id, t)
                    ELSE InsertLease(ls, ip, name, id, t)

\* the scan "for i := currentIP; i < endIP; i++ { if !usedMap[ipStr]": the
\* first i in [cur, end) whose address is not in the snapshot, -1 when none
FirstCandidateHighest(cur, end, used) ==
    LET c == {i \in cur..(end - 1) : IntToIP(i) \notin used}
    IN  IF c = {} THEN -1 ELSE CHOOSE i \in c : \A j \in c : i >= j

FirstCandidateInclusive(cur, end, used) ==
    LET c == {i \in cur..end : IntToIP(i) \notin used}
    IN  IF c = {} THEN -1 ELSE CHOOSE i \in c : \A j \in c : i <= j

FirstCandidate(cur, end, used) ==
    LET c == {i \in cur..(end - 1) : IntToIP(i) \notin used}
    IN  IF c = {} THEN -1 ELSE CHOOSE i \in c : \A j \in c : i <= j

\* the loop of tryAllocateInNetwork from address i on, run without
\* interleaving; tried: the candidates for which a transaction was begun
RECURSIVE ScanFrom(_, _, _, _, _, _, _)
ScanFrom(ls, id, used, i, end, name, t) ==
    LET c == FirstCandidate(i, end, used)
    IN  IF c = -1
        THEN [ok |-> FALSE, ip |-> NoAddr, err |-> PoolFull, ls |-> ls, tried |-> <<>>]
        ELSE LET r == WriteLease(ls, ExistsGlobal(ls, IntToIP(c)), IntToIP(c), name, id, t)
             IN  IF r.ok
                 THEN [ok |-> TRUE, ip |-> IntToIP(c), err |-> "", ls |-> r.ls, tried |-> <<c>>]
                 ELSE [ScanFrom(ls, id, used, c + 1, end, name, t) EXCEPT !.tried = <<c>> \o @]

\* currentIP := startIP + 2
ScanStartPlusOne(rng) == rng[1] + 1

ScanStart(rng) == rng[1] + 2

tryAllocateInNetwork(ls, netDef, name, t) ==
    LET rng == CidrToRange(netDef.cidr)
    IN  ScanFrom(ls, netDef.id, UsedIn(ls, netDef.id), ScanStart(rng), rng[2], name, t)

\* ORDER BY created_at ASC
RECURSIVE SortByCreatedAt(_)
SortByCreatedAt(S) ==
    IF S = {} THEN <<>>
    ELSE LET m == CHOOSE n \in S : \A o \in S : n.created_at <= o.created_at
         IN  <<m>> \o SortByCreatedAt(S \ {m})

getAvailableNetworksAnyPlan(nws, isPro) == SortByCreatedAt(nws)

\* SELECT ... FROM networks WHERE is_public = $1 ORDER BY created_at ASC
getAvailableNetworks(nws, isPro) == SortByCreatedAt({n \in nws : n.is_public = isPro})

\* "for _, net := range networks": a pool whose attempt returns an error is
\* passed over ("Log but continue to next network")
TryNetworksFirstOnly(ls, nets, name, t) ==
    IF nets = <<>> THEN [ok |-> FALSE, ip |-> NoAddr, err |-> PoolExhausted, ls |-> ls]
    ELSE LET r == tryAllocateInNetwork(ls, Head(nets), name, t)
         IN  IF r.ok THEN r
             ELSE [ok |-> FALSE, ip |-> NoAddr, err |-> PoolExhausted, ls |-> ls]

RECURSIVE TryNetworks(_, _, _, _)
TryNetworks(ls, nets, name, t) ==
    IF nets = <<>> THEN [ok |-> FALSE, ip |-> NoAddr, err |-> PoolExhausted, ls |-> ls]
    ELSE LET r == tryAllocateInNetwork(ls, Head(nets), name, t)
         IN  IF r.ok THEN r ELSE TryNetworks(ls, Tail(nets), name, t)

\* isPro := false: the free plan only sees private pools
AllocateIP(ls, nws, name, t) == TryNetworks(ls, getAvailableNetworks(nws, FALSE), name, t)

AllocationFailed == "allocation failed in pool"

AllocateInNetwork(ls, nws, id, name, t) ==
    LET found == {n \in nws : n.id = id}
    IN  IF found = {} THEN [ok |-> FALSE, ip |-> NoAddr, err |-> NetworkNotFound, ls |-> ls]
        ELSE LET r == tryAllocateInNetwork(ls, CHOOSE n \in found : TRUE, name, t)
             IN  IF r.ok THEN r
                 ELSE [ok |-> FALSE, ip |-> NoAddr, err |-> AllocationFailed, ls |-> ls]

\* UPDATE ip_leases SET instance_name = NULL, allocated_at = NULL WHERE instance_name = $1
ReleaseIPDelete(ls, name) ==
    [ip \in {x \in DOMAIN ls : ls[x].instance_name # name} |-> ls[ip]]

ReleaseIPOneRow(ls, name) ==
    LET mine == {x \in DOMAIN ls : ls[x].instance_name = name}
    IN  IF mine = {} THEN ls
        ELSE LET one == CHOOSE x \in mine : \A y \in mine : x[4] <= y[4]
             IN  [ls EXCEPT ![one] = [@ EXCEPT !.instance_name = NULL, !.allocated_at = NULL]]

ReleaseIP(ls, name) ==
    [ip \in DOMAIN ls |->
        IF ls[ip].instance_name = name
        THEN [ls[ip] EXCEPT !.instance_name = NULL, !.allocated_at = NULL]
        ELSE ls[ip]]

\* SELECT ip FROM ip_leases WHERE instance_name = $1, QueryRow(...).Scan(&ip):
\* the answers the call may give, "" on sql.ErrNoRows; with several rows the
\* first one of an unordered result
LeasesOf(ls, name) == {ip \in DOMAIN ls : ls[ip].instance_name = name}
GetInstanceIP(ls, name) == IF LeasesOf(ls, name) = {} THEN {""} ELSE LeasesOf(ls, name)

\* ------------------------------------------------------------- pools
Cidr(ip, ones) == [ip |-> ip, ones |-> ones]
PoolA29 == [id |-> "A", cidr |-> Cidr(Net10, 29), is_public |-> FALSE, created_at |-> 1]
PoolA30 == [id |-> "A", cidr |-> Cidr(Net10, 30), is_public |-> FALSE, created_at |-> 1]
\* overlaps pool A (CIDR overlap between pools is not validated)
PoolB29 == [id |-> "B", cidr |-> Cidr(Net10, 29), is_public |-> FALSE, created_at |-> 2]
PoolP30 == [id |-> "P", cidr |-> Cidr(Net10 + 256, 30), is_public |-> TRUE, created_at |-> 0]

NetScenarios == {{PoolA29}, {PoolA30, PoolB29, PoolP30}}
NetIds == {"A", "B", "P"}

\* rows present before any allocation, with no owner (pre-populated style)
PrePopIPs == {IntToIP(Net10 + 2)}
InitLeases(nws) ==
    UNION {[S -> {Row(NULL, NULL, n.id) : n \in nws}] : S \in SUBSET PrePopIPs}

Usable(n) ==
    LET rng == CidrToRange(n.cidr)
    IN  {IntToIP(i) : i \in (rng[1] + 2)..(rng[2] - 1)}

Owned(ls, ip) == ip \in DOMAIN ls /\ ls[ip].instance_name # NULL

\* ------------------------------------------------------------- job data
\* worker.Init(2, lxcClient)
NumWorkers == 2
\* RecoverStuckJobs(ctx, 5*time.Minute), in minutes
StaleAfter == 5
\* DeleteOldJobs(ctx, 7*24*time.Hour), in minutes
Retention == 7 * 24 * 60

\* the ids uuid.New() may give
JobIds == {"j1", "j2"}
NoJob == ""
Workers == 1..NumWorkers
Targets == {"t1", "t2"}

\* a NULL timestamp
NoTime == 0 - 1

\* a jobs row; status NONE: id not issued yet, DELETED: row purged
NoReq == [cpu |-> 0, ram |-> 0]
NoRow ==
    [status |-> "NONE", type |-> "", target |-> "", req |-> NoReq, error |-> "",
     started_at |-> NoTime, finished_at |-> NoTime, attempt_count |-> 0]
HasRow(js, j) == js[j].status \notin {"NONE", "DELETED"}
Terminal == {"COMPLETED", "FAILED"}

IdleWorker == [pc |-> "idle", job |-> NoJob, target |-> "", tries |-> 0, err |-> ""]
NoResp == [code |-> 0, job |-> NoJob, req |-> NoReq]
NoInstances == [n \in {} |-> NoReq]

JobsQuiet ==
    /\ jobs = [j \in JobIds |-> NoRow]
    /\ queue = <<>>
    /\ delayed = {}
    /\ locks = {}
    /\ workers = [w \in Workers |-> IdleWorker]
    /\ now = 0

AdmitQuiet ==
    /\ instances = NoInstances
    /\ resp = NoResp

\* an empty instances table, a provider that lists nothing
NoStore == [n \in {} |-> 0]
NoListing == [err |-> FALSE, list |-> <<>>]
\* the bus before any Publish; received: what the consumer took from the channel
IdleBus == [queue |-> <<>>, received |-> <<>>, published |-> 0]
\* the scheduler goroutine not started
SchedOff ==
    [pc |-> "off", tick |-> FALSE, cancelled |-> FALSE, passes |-> 0,
     ran |-> <<>>, returned |-> "", oldMetrics |-> FALSE]

\* a database no migration has been applied to, no run under way
NoSchema ==
    [recorded |-> {}, applied |-> {}, pc |-> "idle", i |-> 0, current |-> 0, target |-> 0,
     op |-> "", appliedCount |-> 0, returned |-> "", calls |-> 0]

SvcQuiet ==
    /\ store = NoStore
    /\ lxd = NoListing
    /\ bus = IdleBus
    /\ sched = SchedOff
    /\ schema = NoSchema

\* ------------------------------------------------------------- SpecAlloc
Procs == 1..NumCalls
IdleAlloc ==
    [pc |-> "idle", kind |-> "", name |-> "", target |-> "", nets |-> <<>>,
     used |-> {}, cur |-> 0, end |-> 0, exists |-> FALSE, result |-> NoResult]

IPAMInit ==
    /\ networks \in NetScenarios
    /\ leases \in InitLeases(networks)
    /\ alloc = [p \in Procs |-> IdleAlloc]
    /\ live = {}
    /\ released = FALSE
    /\ conflict = FALSE
    /\ nAlloc = 0
    /\ lastIP = NoResult
    /\ pristine = (Cardinality(networks) = 1 /\ DOMAIN leases = {})

AllocInit == IPAMInit /\ JobsQuiet /\ AdmitQuiet /\ SvcQuiet

ghostSeq == <<nAlloc, lastIP, pristine>>

\* calls are numbered in the order they start
MayStart(p) == alloc[p].pc = "idle" /\ \A q \in Procs : q < p => alloc[q].pc # "idle"

\* AllocateIP up to the networks query
StartAllocateIP(p, name) ==
    /\ MayStart(p)
    /\ LET nets == getAvailableNetworks(networks, FALSE)
       IN  alloc' = [alloc EXCEPT ![p] =
                IF nets = <<>>
                THEN [@ EXCEPT !.pc = "done", !.kind = "ip", !.name = name,
                               !.result = Fail(PoolExhausted)]
                ELSE [@ EXCEPT !.pc = "snapshot", !.kind = "ip", !.name = name,
                               !.nets = nets]]
    /\ UNCHANGED <<networks, leases, live, released, conflict, ghostSeq, jobVars, admVars, svcVars>>

\* AllocateInNetwork up to the network query
StartAllocateInNetwork(p, id, name) ==
    /\ MayStart(p)
    /\ LET found == {n \in networks : n.id = id}
       IN  alloc' = [alloc EXCEPT ![p] =
                IF found = {}
                THEN [@ EXCEPT !.pc = "done", !.kind = "net", !.name = name,
                               !.target = id, !.result = Fail(NetworkNotFound)]
                ELSE [@ EXCEPT !.pc = "snapshot", !.kind = "net", !.name = name,
                               !.target = id, !.nets = <<CHOOSE n \in found : TRUE>>]]
    /\ UNCHANGED <<networks, leases, live, released, conflict, ghostSeq, jobVars, admVars, svcVars>>

\* tryAllocateInNetwork: the range and the snapshot of owned addresses
Snapshot(p) ==
    /\ alloc[p].pc = "snapshot"
    /\ LET netDef == Head(alloc[p].nets)
           rng    == CidrToRange(netDef.cidr)
       IN  alloc' = [alloc EXCEPT ![p] =
                [@ EXCEPT !.pc = "scan", !.used = UsedIn(leases, netDef.id),
                          !.cur = ScanStart(rng), !.end = rng[2]]]
    /\ UNCHANGED <<networks, leases, live, released, conflict, ghostSeq, jobVars, admVars, svcVars>>

\* the pool gave no address: next candidate pool, or the call fails
PoolFailed(a) ==
    IF Len(a.nets) > 1
    THEN [a EXCEPT !.pc = "snapshot", !.nets = Tail(a.nets)]
    ELSE [IdleAlloc EXCEPT !.pc = "done", !.kind = a.kind, !.name = a.name,
                           !.target = a.target,
                           !.result = IF a.kind = "ip" THEN Fail(PoolExhausted)
                                      ELSE Fail(AllocationFailed)]

\* the scan up to the next candidate, BeginTx and SELECT EXISTS
Probe(p) ==
    /\ alloc[p].pc = "scan"
    /\ LET c == FirstCandidate(alloc[p].cur, alloc[p].end, alloc[p].used)
       IN  alloc' = [alloc EXCEPT ![p] =
                IF c = -1 THEN PoolFailed(@)
                ELSE [@ EXCEPT !.pc = "write", !.cur = c,
                               !.exists = ExistsGlobal(leases, IntToIP(c))]]
    /\ UNCHANGED <<networks, leases, live, released, conflict, ghostSeq, jobVars, admVars, svcVars>>

\* FOREIGN KEY (network_id) REFERENCES networks(id): a lease can only be
\* written for a network row that exists
NetworkRowExists(nws, id) == \E n \in nws : n.id = id

\* UPDATE or INSERT, then Commit (or Rollback and continue with the next i)
Write(p) ==
    /\ alloc[p].pc = "write"
    /\ LET a  == alloc[p]
           ip == IntToIP(a.cur)
           fk == NetworkRowExists(networks, Head(a.nets).id)
           r  == IF fk THEN WriteLease(leases, a.exists, ip, a.name, Head(a.nets).id, now)
                 ELSE [ok |-> FALSE, ls |-> leases]
       IN  /\ leases' = r.ls
           /\ alloc' = [alloc EXCEPT ![p] =
                 IF r.ok THEN [IdleAlloc EXCEPT !.pc = "done", !.kind = a.kind,
                                                !.name = a.name, !.target = a.target,
                                                !.result = Ok(ip)]
                 ELSE [@ EXCEPT !.pc = "scan", !.cur = a.cur + 1]]
           /\ live' = IF r.ok THEN live \cup {[ip |-> ip, name |-> a.name, call |-> p]}
                      ELSE live
           /\ conflict' = (conflict \/ (fk /\ ~r.ok /\ ~a.exists))
    /\ UNCHANGED <<networks, released, ghostSeq, jobVars, admVars, svcVars>>

ReleaseIPCall(name) ==
    /\ leases' = ReleaseIP(leases, name)
    /\ live' = {y \in live : y.name # name}
    /\ released' = (released \/ leases' # leases)
    /\ pristine' = (pristine /\ leases' = leases)
    /\ UNCHANGED <<networks, alloc, conflict, nAlloc, lastIP, jobVars, admVars, svcVars>>

AllocNext ==
    \/ \E p \in Procs, name \in Names : StartAllocateIP(p, name)
    \/ \E p \in Procs, id \in NetIds, name \in Names : StartAllocateInNetwork(p, id, name)
    \/ \E p \in Procs : Snapshot(p)
    \/ \E p \in Procs : Probe(p)
    \/ \E p \in Procs : Write(p)
    \/ \E name \in Names : ReleaseIPCall(name)

SpecAlloc == AllocInit /\ [][AllocNext]_vars

\* --- history read-outs
Done(p) == alloc[p].pc = "done"
Succeeded(p) == Done(p) /\ alloc[p].result.ok

\* the pools call p tries, from its entry point
Candidates(p) ==
    IF alloc[p].kind = "ip" THEN {n \in networks : ~n.is_public}
    ELSE {n \in networks : n.id = alloc[p].target}

\* addresses of pool n that no instance owned when the calls began: free now, or
\* handed out since (meaningful while nothing has been released)
FreeAtStart(n) ==
    {ip \in Usable(n) : ~Owned(leases, ip) \/ \E y \in live : y.ip = ip}

\* C1: while no release interferes, every finished call that had a candidate
\* pool with at least NumCalls free addresses has succeeded, and no two
\* finished calls returned the same address (at most one of the racing
\* claim-or-insert transactions committed for any address).
C1_ConcurrentDistinct ==
    ~released =>
        /\ \A p \in Procs :
              (Done(p) /\ \E n \in Candidates(p) : Cardinality(FreeAtStart(n)) >= NumCalls)
                  => alloc[p].result.ok
        /\ \A p, q \in Procs :
              (p # q /\ Succeeded(p) /\ Succeeded(q)) => alloc[p].result.ip # alloc[q].result.ip

\* all calls finished with an address after an INSERT lost a race
C1_Witness ==
    /\ ~released
    /\ conflict
    /\ \A p \in Procs : Succeeded(p)

\* C2: an address handed out and not released since is owned by the instance it
\* was handed to, and by nobody else: no two unreleased allocations hold the
\* same address, in one pool or in two overlapping ones.
C2_SingleOwner ==
    /\ \A y \in live : y.ip \in DOMAIN leases /\ leases[y.ip].instance_name = y.name
    /\ \A y1, y2 \in live : y1.ip = y2.ip => y1 = y2

\* the same address was returned to two calls, the first having been released,
\* with two pools covering it
C2_Witness ==
    /\ Cardinality(networks) > 1
    /\ \E p, q \in Procs :
          /\ p # q /\ Succeeded(p) /\ Succeeded(q)
          /\ alloc[p].result.ip = alloc[q].result.ip
          /\ alloc[p].name # alloc[q].name
          /\ Cardinality(live) = 1

\* ------------------------------------------------------------- SpecIPAM
\* calls that do not race: each call runs from entry to return in one step
Result(r) == [ok |-> r.ok, ip |-> r.ip, err |-> r.err]

CallAllocateIP(name) ==
    /\ nAlloc < MaxAllocs
    /\ LET r == AllocateIP(leases, networks, name, now)
       IN  /\ leases' = r.ls
           /\ lastIP' = Result(r)
           /\ live' = IF r.ok
                      THEN live \cup {[ip |-> r.ip, name |-> name, call |-> nAlloc + 1]}
                      ELSE live
    /\ nAlloc' = nAlloc + 1
    /\ UNCHANGED <<networks, alloc, released, conflict, pristine, jobVars, admVars, svcVars>>

CallAllocateInNetwork(id, name) ==
    /\ nAlloc < MaxAllocs
    /\ LET r == AllocateInNetwork(leases, networks, id, name, now)
       IN  /\ leases' = r.ls
           /\ lastIP' = Result(r)
           /\ live' = IF r.ok
                      THEN live \cup {[ip |-> r.ip, name |-> name, call |-> nAlloc + 1]}
                      ELSE live
    /\ nAlloc' = nAlloc + 1
    /\ pristine' = FALSE
    /\ UNCHANGED <<networks, alloc, released, conflict, jobVars, admVars, svcVars>>

IPAMNext ==
    \/ \E name \in Names : CallAllocateIP(name)
    \/ \E id \in NetIds, name \in Names : CallAllocateInNetwork(id, name)
    \/ \E name \in Names : ReleaseIPCall(name)

SpecIPAM == AllocInit /\ [][IPAMNext]_vars

\* C10: with the single pool 10.0.0.0/29 and no lease at the start, TotalIPs is
\* 5, the k-th of the first five AllocateIP calls returns 10.0.0.(k+1), and
\* every later call fails with PoolExhausted.
C10_Slash29 ==
    (pristine /\ networks = {PoolA29}) =>
        /\ TotalIPs(PoolA29.cidr) = 5
        /\ nAlloc \in 1..5 => lastIP = Ok(<<10, 0, 0, nAlloc + 1>>)
        /\ nAlloc >= 6 => lastIP = Fail(PoolExhausted)

\* the sixth call has failed after five addresses were handed out
C10_Witness ==
    /\ pristine /\ networks = {PoolA29}
    /\ nAlloc = 6
    /\ lastIP = Fail(PoolExhausted)
    /\ {y.ip : y \in live} = {<<10, 0, 0, k>> : k \in 2..6}

\* the pools AllocateIP tries: the private ones
CandidatePools == {n \in networks : ~n.is_public}
FreeIn(n) == {ip \in Usable(n) : ~Owned(leases, ip)}

\* C11: a non-racing AllocateIP succeeds exactly when some candidate pool has
\* an unowned address in its usable range; otherwise it fails with
\* PoolExhausted, and the failing call leaves every lease row as it was.
C11_ExhaustedExactly ==
    \A name \in Names :
        LET r == AllocateIP(leases, networks, name, now)
        IN  /\ r.ok <=> \E n \in CandidatePools : FreeIn(n) # {}
            /\ r.ok => r.ip \in UNION {FreeIn(n) : n \in CandidatePools}
            /\ ~r.ok => r.err = PoolExhausted /\ r.ls = leases

\* two candidate pools, every usable address of both owned, a free address
\* left in the public pool, and the last call has failed
C11_Witness ==
    /\ Cardinality(CandidatePools) = 2
    /\ \A n \in CandidatePools : Usable(n) # {} /\ FreeIn(n) = {}
    /\ \E n \in networks \ CandidatePools : FreeIn(n) # {}
    /\ lastIP = Fail(PoolExhausted)

\* C19: ReleaseIP(instanceName) sets instance_name and allocated_at to null on
\* the rows owned by instanceName and deletes no row: the rows, their ip and
\* network_id are the same before and after, every other row is untouched, and
\* a released address is a known unowned entry that the claim write accepts and
\* a later AllocateIP hands out (it is the address returned when it is the only
\* free one of the private pools).
C19_ReleaseKeepsRows ==
    \A name \in Names :
        LET after == ReleaseIP(leases, name)
            freed == {ip \in DOMAIN leases : leases[ip].instance_name = name}
            free  == UNION {{ip \in Usable(n) : ~Owned(after, ip)} : n \in CandidatePools}
        IN  /\ DOMAIN after = DOMAIN leases
            /\ \A ip \in DOMAIN leases :
                  /\ after[ip].network_id = leases[ip].network_id
                  /\ ip \notin freed => after[ip] = leases[ip]
            /\ \A ip \in freed :
                  /\ after[ip].instance_name = NULL
                  /\ after[ip].allocated_at = NULL
                  /\ ExistsGlobal(after, ip)
                  /\ \A other \in Names :
                        /\ WriteLease(after, ExistsGlobal(after, ip), ip, other,
                                      after[ip].network_id, now).ok
                        /\ ip \in free => AllocateIP(after, networks, other, now).ok
                        /\ free = {ip} => AllocateIP(after, networks, other, now).ip = ip

\* an address of the single pool handed out, released, and handed out again
C19_Witness ==
    /\ released
    /\ networks = {PoolA29}
    /\ nAlloc >= 2
    /\ lastIP.ok /\ lastIP.ip = IntToIP(Net10 + 2)
    /\ Owned(leases, lastIP.ip)
    /\ \E ip \in DOMAIN leases : ip # lastIP.ip /\ leases[ip].instance_name = NULL
                                  /\ ip \notin PrePopIPs

\* the scan range of a pool as integers, and its unowned addresses
ScanRange(n) == (CidrToRange(n.cidr)[1] + 2)..(CidrToRange(n.cidr)[2] - 1)
FreeInts(n) == {i \in ScanRange(n) : ~Owned(leases, IntToIP(i))}

\* C29: a non-racing allocation in a pool returns the numerically lowest
\* address of the pool's usable range that is not owned at the time of the
\* call (a released middle address before any higher free one) and fails when
\* there is none; within the call the candidates are attempted in ascending
\* order, each at most once, all inside the range, so in at most range-size
\* attempts.
C29_LowestFree ==
    \A n \in networks : \A name \in Names :
        LET r == tryAllocateInNetwork(leases, n, name, now)
        IN  /\ FreeInts(n) # {} =>
                  /\ r.ok
                  /\ \E a \in FreeInts(n) :
                        /\ r.ip = IntToIP(a)
                        /\ \A b \in FreeInts(n) : a <= b
            /\ FreeInts(n) = {} => ~r.ok /\ r.ls = leases
            /\ \A i \in 1..(Len(r.tried) - 1) : r.tried[i] < r.tried[i + 1]
            /\ \A i \in 1..Len(r.tried) : r.tried[i] \in ScanRange(n)
            /\ Len(r.tried) <= Cardinality(ScanRange(n))

\* 10.0.0.3, released while .2 and .4 stayed owned and .5 was free, was handed
\* out again by the last call
C29_Witness ==
    /\ networks = {PoolA29}
    /\ released
    /\ lastIP.ok /\ lastIP.ip = IntToIP(Net10 + 3)
    /\ Owned(leases, IntToIP(Net10 + 2))
    /\ Owned(leases, IntToIP(Net10 + 3))
    /\ Owned(leases, IntToIP(Net10 + 4))
    /\ ~Owned(leases, IntToIP(Net10 + 5))
    /\ leases[IntToIP(Net10 + 3)].instance_name # leases[IntToIP(Net10 + 4)].instance_name

\* the pools a free-plan call may use, and the outcome of one pool's attempt
PrivatePools == {n \in networks : ~n.is_public}
Yields(n, name) == tryAllocateInNetwork(leases, n, name, now).ok

\* C30: AllocateIP goes through the candidate (private) pools in ascending
\* creation time: the list it walks holds each candidate once, ordered by
\* created_at; a call that returns an address returns what the attempt in one
\* candidate pool gave, and every candidate created earlier gave none in this
\* call; a pool that fails does not fail the call while a later pool yields,
\* and the call fails, with the "no IP addresses available" error and no
\* change of ip_leases, only when every candidate failed.
C30_PoolOrder ==
    \A name \in Names :
        LET nets == getAvailableNetworks(networks, FALSE)
            r == AllocateIP(leases, networks, name, now)
        IN  /\ {nets[i] : i \in 1..Len(nets)} = PrivatePools
            /\ Len(nets) = Cardinality(PrivatePools)
            /\ \A i \in 1..(Len(nets) - 1) : nets[i].created_at <= nets[i + 1].created_at
            /\ r.ok <=> \E n \in PrivatePools : Yields(n, name)
            /\ r.ok =>
                  \E n \in PrivatePools :
                      /\ Yields(n, name)
                      /\ Result(r) = Result(tryAllocateInNetwork(leases, n, name, now))
                      /\ r.ls = tryAllocateInNetwork(leases, n, name, now).ls
                      /\ r.ls[r.ip].network_id = n.id
                      /\ \A m \in PrivatePools : m.created_at < n.created_at => ~Yields(m, name)
            /\ ~r.ok => r.err = PoolExhausted /\ r.ls = leases

\* the older pool A is full, so the last call went on to the younger pool B
\* and returned an address from it; the public pool P stayed untouched
C30_Witness ==
    /\ networks = {PoolA30, PoolB29, PoolP30}
    /\ ~released
    /\ nAlloc = 2
    /\ \A name \in Names : ~Yields(PoolA30, name)
    /\ Owned(leases, IntToIP(Net10 + 2)) /\ leases[IntToIP(Net10 + 2)].network_id = "A"
    /\ lastIP.ok /\ lastIP.ip = IntToIP(Net10 + 3)
    /\ leases[lastIP.ip].network_id = "B"
    /\ \A ip \in DOMAIN leases : leases[ip].network_id # "P" \/ ~Owned(leases, ip)

PublicPools == {n \in networks : n.is_public}

\* C31: AllocateIP only allocates from pools with is_public = false: a call
\* that succeeds returns an address of the scan range of a private pool and
\* leaves the lease under that pool's id, it writes no lease of a public pool,
\* and with every private pool exhausted it fails with the "no IP addresses
\* available" error although a public pool still has a free address;
\* AllocateInNetwork with the id of a public pool does allocate from it.
C31_PrivateOnly ==
    \A name \in Names :
        LET r == AllocateIP(leases, networks, name, now)
        IN  /\ r.ok =>
                  /\ \E n \in PrivatePools :
                        /\ r.ls[r.ip].network_id = n.id
                        /\ \E i \in ScanRange(n) : r.ip = IntToIP(i)
                  /\ \A n \in PublicPools : r.ls[r.ip].network_id # n.id
            /\ \A n \in PublicPools : UsedIn(r.ls, n.id) = UsedIn(leases, n.id)
            /\ (\A n \in PrivatePools : FreeInts(n) = {}) =>
                  ~r.ok /\ r.err = PoolExhausted /\ r.ls = leases
            /\ \A n \in PublicPools :
                  LET q == AllocateInNetwork(leases, networks, n.id, name, now)
                  IN  FreeInts(n) # {} =>
                        q.ok /\ q.ls[q.ip].network_id = n.id
                             /\ \E i \in ScanRange(n) : q.ip = IntToIP(i)

\* both private pools are exhausted and the public pool has a free address:
\* the last call, which changed no lease of the public pool, failed
C31_Witness ==
    /\ networks = {PoolA30, PoolB29, PoolP30}
    /\ \A n \in PrivatePools : FreeInts(n) = {}
    /\ FreeInts(PoolP30) # {}
    /\ lastIP = Fail(PoolExhausted)
    /\ \A name \in Names : ~AllocateIP(leases, networks, name, now).ok

\* a step that is an allocation call which returned an address
AllocatedStep == nAlloc' = nAlloc + 1 /\ lastIP'.ok

\* C32: one allocation path serves both lease styles. A successful
\* allocation whose address already had a lease row found that row without
\* owner, claims it and leaves the number of rows unchanged; one whose address
\* had no row adds exactly that row; either way the row of the returned
\* address is then owned, with the time of the call and the id of a pool, and
\* every other lease row is unchanged. A failed allocation changes no row.
C32_ClaimOrInsert ==
    [][/\ AllocatedStep =>
            LET ip == lastIP'.ip
            IN  /\ ip \in DOMAIN leases =>
                      /\ leases[ip].instance_name = NULL
                      /\ DOMAIN leases' = DOMAIN leases
                /\ ip \notin DOMAIN leases =>
                      /\ DOMAIN leases' = DOMAIN leases \cup {ip}
                      /\ Cardinality(DOMAIN leases') = Cardinality(DOMAIN leases) + 1
                /\ leases'[ip].instance_name \in Names
                /\ leases'[ip].allocated_at = now
                /\ \E n \in networks : leases'[ip].network_id = n.id
                /\ \A x \in DOMAIN leases \ {ip} : leases'[x] = leases[x]
       /\ (nAlloc' = nAlloc + 1 /\ ~lastIP'.ok) => leases' = leases]_vars

\* in the pool 10.0.0.0/29, .2 and .3 were inserted on demand and released;
\* the last call claimed the row of .2 again while the row of .3 stays free
C32_Witness ==
    /\ networks = {PoolA29}
    /\ released
    /\ nAlloc = 3
    /\ lastIP.ok /\ lastIP.ip = IntToIP(Net10 + 2)
    /\ DOMAIN leases = {IntToIP(Net10 + 2), IntToIP(Net10 + 3)}
    /\ Owned(leases, IntToIP(Net10 + 2))
    /\ leases[IntToIP(Net10 + 3)].instance_name = NULL

\* C35: each instance name owns at most one lease at any time, whatever
\* sequence of AllocateIP, AllocateInNetwork and ReleaseIP calls was made
\* (AllocateIP called again for the same instance included), so GetInstanceIP
\* has a single possible answer.
C35_OneLeasePerInstance ==
    \A name \in Names :
        /\ Cardinality(LeasesOf(leases, name)) <= 1
        /\ Cardinality(GetInstanceIP(leases, name)) = 1

\* C37: ReleaseIP(instanceName) releases every lease the instance owns and
\* nothing else: afterwards no lease has that owner and GetInstanceIP answers
\* the empty string, the rows stay, those of other owners and the free ones
\* as they were, the released ones with their address and network; a second
\* ReleaseIP, or one for an instance that owns nothing, changes no row.
C37_ReleaseAll ==
    \A name \in Names :
        LET after == ReleaseIP(leases, name)
        IN  /\ LeasesOf(after, name) = {}
            /\ GetInstanceIP(after, name) = {""}
            /\ DOMAIN after = DOMAIN leases
            /\ \A ip \in DOMAIN leases :
                  IF leases[ip].instance_name = name
                  THEN after[ip] = Row(NULL, NULL, leases[ip].network_id)
                  ELSE after[ip] = leases[ip]
            /\ ReleaseIP(after, name) = after
            /\ LeasesOf(leases, name) = {} => after = leases

\* an instance that owned 10.0.0.2 and 10.0.0.3 has been released: both rows
\* are free, and 10.0.0.4 still belongs to the other instance
C37_Witness ==
    /\ networks = {PoolA29}
    /\ released
    /\ nAlloc = 3
    /\ DOMAIN leases = {IntToIP(Net10 + 2), IntToIP(Net10 + 3), IntToIP(Net10 + 4)}
    /\ leases[IntToIP(Net10 + 2)].instance_name = NULL
    /\ leases[IntToIP(Net10 + 3)].instance_name = NULL
    /\ Owned(leases, IntToIP(Net10 + 4))
    /\ \E name \in Names : GetInstanceIP(leases, name) = {""}

\* ------------------------------------------------------------- SpecNet
\* SELECT COUNT(*) FROM ip_leases WHERE network_id = $1 AND instance_name IS NOT NULL
CountActive(ls, id) == Cardinality(UsedIn(ls, id))

\* fmt.Errorf("network has %d active IP allocations", count)
ActiveAllocations == "network has active IP allocations"
\* sql.ErrNoRows, when no network row was deleted
ErrNoRows == "sql: no rows in result set"

\* DELETE FROM ip_leases WHERE network_id = $1
DeleteLeasesOf(ls, id) == [ip \in {x \in DOMAIN ls : ls[x].network_id # id} |-> ls[ip]]

\* DELETE FROM networks WHERE id = $1
DeleteNetworkRow(nws, id) == {n \in nws : n.id # id}

\* the count check, then the two deletes, run without interleaving
DeleteNetworkUnchecked(ls, nws, id) ==
    LET rest == DeleteNetworkRow(nws, id)
    IN  [ok |-> rest # nws, err |-> IF rest # nws THEN "" ELSE ErrNoRows,
         ls |-> DeleteLeasesOf(ls, id), nws |-> rest]

DeleteNetwork(ls, nws, id) ==
    IF CountActive(ls, id) > 0
    THEN [ok |-> FALSE, err |-> ActiveAllocations, ls |-> ls, nws |-> nws]
    ELSE LET rest == DeleteNetworkRow(nws, id)
         IN  [ok |-> rest # nws, err |-> IF rest # nws THEN "" ELSE ErrNoRows,
              ls |-> DeleteLeasesOf(ls, id), nws |-> rest]

CallDeleteNetwork(id) ==
    /\ LET r == DeleteNetwork(leases, networks, id)
       IN  /\ leases' = r.ls
           /\ networks' = r.nws
           /\ lastIP' = [ok |-> r.ok, ip |-> NoAddr, err |-> r.err]
    /\ pristine' = FALSE
    /\ UNCHANGED <<alloc, live, released, conflict, nAlloc, jobVars, admVars, svcVars>>

NetNext ==
    \/ IPAMNext
    \/ \E id \in NetIds : CallDeleteNetwork(id)

\* the scenario with three pools, so that deleting one leaves pools to allocate from
NetInit == AllocInit /\ Cardinality(networks) = 3

SpecNet == NetInit /\ [][NetNext]_vars

\* C20: DeleteNetwork(id) on a pool with at least one owned lease returns an
\* error and removes no lease row and no network row; on a pool with no owned
\* lease it removes every lease row of that pool, owned or not, and the network
\* row, and nothing else.
C20_DeleteNetwork ==
    \A n \in networks :
        LET r == DeleteNetwork(leases, networks, n.id)
            owned == {ip \in DOMAIN leases : leases[ip].network_id = n.id
                                               /\ leases[ip].instance_name # NULL}
            kept == {ip \in DOMAIN leases : leases[ip].network_id # n.id}
        IN  /\ owned # {} => /\ ~r.ok /\ r.err # ""
                             /\ r.ls = leases
                             /\ r.nws = networks
            /\ owned = {} => /\ r.ok /\ r.err = ""
                             /\ DOMAIN r.ls = kept
                             /\ \A ip \in kept : r.ls[ip] = leases[ip]
                             /\ r.nws = networks \ {n}

\* one pool was deleted; of the two left one has an owned lease (a delete is
\* refused) and the other only a row without owner (a delete removes it)
C20_Witness ==
    /\ Cardinality(networks) = 2
    /\ lastIP.ok /\ lastIP.ip = NoAddr
    /\ \E n \in networks : UsedIn(leases, n.id) # {}
    /\ \E m \in networks :
          /\ UsedIn(leases, m.id) = {}
          /\ \E ip \in DOMAIN leases : leases[ip].network_id = m.id

\* ------------------------------------------------------------- SpecNetRace
\* DeleteNetwork statement by statement, beside the racing allocators. The
\* deleting call takes a slot of alloc: kind "del", target the pool id, used
\* the addresses whose rows its DELETE FROM ip_leases removed.
ForeignKeyViolation == "violates foreign key constraint"

StartDeleteNetwork(p, id) ==
    /\ MayStart(p)
    /\ alloc' = [alloc EXCEPT ![p] = [@ EXCEPT !.pc = "count", !.kind = "del", !.target = id]]
    /\ UNCHANGED <<networks, leases, live, released, conflict, ghostSeq, jobVars, admVars, svcVars>>

\* SELECT COUNT(*) ... ; if count > 0 { return error }
CountStep(p) ==
    /\ alloc[p].pc = "count"
    /\ alloc' = [alloc EXCEPT ![p] =
          IF CountActive(leases, alloc[p].target) > 0
          THEN [@ EXCEPT !.pc = "done", !.result = Fail(ActiveAllocations)]
          ELSE [@ EXCEPT !.pc = "delLeases"]]
    /\ UNCHANGED <<networks, leases, live, released, conflict, ghostSeq, jobVars, admVars, svcVars>>

\* DELETE FROM ip_leases WHERE network_id = $1
DeleteLeasesStep(p) ==
    /\ alloc[p].pc = "delLeases"
    /\ leases' = DeleteLeasesOf(leases, alloc[p].target)
    /\ alloc' = [alloc EXCEPT ![p] =
          [@ EXCEPT !.pc = "delNet", !.used = DOMAIN leases \ DOMAIN leases']]
    /\ UNCHANGED <<networks, live, released, conflict, ghostSeq, jobVars, admVars, svcVars>>

\* DELETE FROM networks WHERE id = $1, refused while a lease references the row
DeleteNetworkStep(p) ==
    /\ alloc[p].pc = "delNet"
    /\ LET id   == alloc[p].target
           refd == \E ip \in DOMAIN leases : leases[ip].network_id = id
           rest == DeleteNetworkRow(networks, id)
       IN  /\ networks' = IF refd THEN networks ELSE rest
           /\ alloc' = [alloc EXCEPT ![p] =
                 [@ EXCEPT !.pc = "done",
                           !.result = IF refd THEN Fail(ForeignKeyViolation)
                                      ELSE IF rest = networks THEN Fail(ErrNoRows)
                                      ELSE [ok |-> TRUE, ip |-> NoAddr, err |-> ""]]]
    /\ UNCHANGED <<leases, live, released, conflict, ghostSeq, jobVars, admVars, svcVars>>

NetRaceNext ==
    \/ AllocNext
    \/ \E p \in Procs, id \in NetIds : StartDeleteNetwork(p, id)
    \/ \E p \in Procs : CountStep(p)
    \/ \E p \in Procs : DeleteLeasesStep(p)
    \/ \E p \in Procs : DeleteNetworkStep(p)

SpecNetRace == AllocInit /\ [][NetRaceNext]_vars

\* C21: also when DeleteNetwork runs beside AllocateIP on the same pool, no
\* lease row with an owner is ever deleted, no owned lease references a
\* network that no longer exists, and a DeleteNetwork call that removed lease
\* rows of the pool has not ended with the pool definition still in place.
C21_DeleteRace ==
    /\ [][\A ip \in DOMAIN leases : Owned(leases, ip) => ip \in DOMAIN leases']_vars
    /\ [](\A ip \in DOMAIN leases :
            Owned(leases, ip) => NetworkRowExists(networks, leases[ip].network_id))
    /\ [](\A p \in Procs :
            (alloc[p].kind = "del" /\ alloc[p].pc = "done" /\ alloc[p].used # {})
                => alloc[p].result.ok)

\* ------------------------------------------------------------- SpecStats
\* GetNetworksWithStats: every network in created_at order with TotalIPs
\* (1 << (32 - ones), minus 3 when that is more than 2) and UsedIPs
\* (COUNT of its leases WHERE instance_name IS NOT NULL)
GetNetworksWithStats(nws, ls) ==
    LET rows == SortByCreatedAt(nws)
    IN  [i \in 1..Len(rows) |->
            [id |-> rows[i].id, cidr |-> rows[i].cidr,
             TotalIPs |-> TotalIPs(rows[i].cidr),
             UsedIPs |-> Cardinality(UsedIn(ls, rows[i].id))]]

\* prefix lengths whose size 2^(32 - ones) fits the integers of the checker
Prefixes == 2..32
\* a pool of any prefix length beside the small private pool that is allocated from
StatPool(ones) == [id |-> "S", cidr |-> Cidr(Net10 + 512, ones), is_public |-> TRUE, created_at |-> 3]

StatsInit ==
    /\ networks \in {{PoolA30, StatPool(ones)} : ones \in Prefixes}
    /\ leases \in InitLeases(networks)
    /\ alloc = [p \in Procs |-> IdleAlloc]
    /\ live = {}
    /\ released = FALSE
    /\ conflict = FALSE
    /\ nAlloc = 0
    /\ lastIP = NoResult
    /\ pristine = FALSE
    /\ JobsQuiet
    /\ AdmitQuiet
    /\ SvcQuiet

SpecStats == StatsInit /\ [][IPAMNext]_vars

\* C18: for every network GetNetworksWithStats reports TotalIPs =
\* max(0, 2^(32 - prefixLen) - 3), so 0 for a /31 and a /32, and UsedIPs = the
\* number of lease rows of that network with an owner.
C18_TotalIPs ==
    LET stats == GetNetworksWithStats(networks, leases)
    IN  \A i \in 1..Len(stats) :
            LET hosts == 2 ^ (32 - stats[i].cidr.ones) - 3
            IN  /\ stats[i].TotalIPs = IF hosts > 0 THEN hosts ELSE 0
                /\ stats[i].UsedIPs =
                      Cardinality({ip \in DOMAIN leases :
                                      /\ leases[ip].network_id = stats[i].id
                                      /\ leases[ip].instance_name # NULL})

\* ------------------------------------------------------------- SpecHostBits
\* the pool 10.0.0.h/29: a CIDR written with host bits set when h > 0
HostBits == 0..7
HostBitPool(h) == [id |-> "A", cidr |-> Cidr(Net10 + h, 29), is_public |-> FALSE, created_at |-> 1]

HostBitsInit ==
    /\ networks \in {{HostBitPool(h)} : h \in HostBits}
    /\ leases \in InitLeases(networks)
    /\ alloc = [p \in Procs |-> IdleAlloc]
    /\ live = {}
    /\ released = FALSE
    /\ conflict = FALSE
    /\ nAlloc = 0
    /\ lastIP = NoResult
    /\ pristine = FALSE
    /\ JobsQuiet
    /\ AdmitQuiet
    /\ SvcQuiet

SpecHostBits == HostBitsInit /\ [][IPAMNext]_vars

\* the addresses of the block of a CIDR from network + 2 up to, not including,
\* the broadcast address
BlockUsable(cidr) ==
    LET size    == 2 ^ (32 - cidr.ones)
        network == cidr.ip - (cidr.ip % size)
    IN  {IntToIP(i) : i \in (network + 2)..(network + size - 2)}

\* C28: for every pool CIDR, also one written with host bits set, the
\* addresses AllocateIP can yield from the pool are exactly network + 2 up to
\* the broadcast address, exclusive: an address handed out is one of them,
\* while one of them is unowned the allocation in the pool succeeds with the
\* lowest such address, and the committed lease names the pool scanned.
C28_UsableRange ==
    \A n \in networks :
        LET block == BlockUsable(n.cidr)
            free  == {ip \in block : ~Owned(leases, ip)}
            r     == AllocateInNetwork(leases, networks, n.id, "vm1", now)
        IN  /\ \A y \in live : y.ip \in block
            /\ free # {} => /\ r.ok
                            /\ r.ip \in free
                            /\ r.ls[r.ip].network_id = n.id
            /\ free = {} => ~r.ok

\* ------------------------------------------------------------- SpecUsage
\* the non-racing calls from an empty lease table, over one private pool of
\* a small prefix length or over the overlapping pools
SmallPrefixes == 28..32
PrefixPool(ones) == [id |-> "A", cidr |-> Cidr(Net10, ones), is_public |-> FALSE, created_at |-> 1]

UsageInit ==
    /\ networks \in {{PrefixPool(ones)} : ones \in SmallPrefixes} \cup {{PoolA30, PoolB29, PoolP30}}
    /\ leases = [ip \in {} |-> Row(NULL, NULL, "A")]
    /\ alloc = [p \in Procs |-> IdleAlloc]
    /\ live = {}
    /\ released = FALSE
    /\ conflict = FALSE
    /\ nAlloc = 0
    /\ lastIP = NoResult
    /\ pristine = FALSE
    /\ JobsQuiet
    /\ AdmitQuiet
    /\ SvcQuiet

SpecUsage == UsageInit /\ [][IPAMNext]_vars

\* the number of addresses the scan of tryAllocateInNetwork goes through
ScanSize(cidr) ==
    LET rng == CidrToRange(cidr)
    IN  IF rng[2] - rng[1] - 2 > 0 THEN rng[2] - rng[1] - 2 ELSE 0

\* C36: in every state reached from an empty lease table by AllocateIP,
\* AllocateInNetwork and ReleaseIP calls, GetNetworksWithStats reports
\* UsedIPs <= TotalIPs for every network, also when pools overlap and a claim
\* moves a lease row from one network_id to another: the owned leases of a
\* network lie in the range its scan goes through, and for every prefix
\* length that range has at most TotalIPs addresses.
C36_UsageWithinTotal ==
    LET stats == GetNetworksWithStats(networks, leases)
    IN  /\ \A i \in 1..Len(stats) : stats[i].UsedIPs <= stats[i].TotalIPs
        /\ \A n \in networks :
              /\ UsedIn(leases, n.id) \subseteq {IntToIP(i) : i \in ScanRange(n)}
              /\ Cardinality(ScanRange(n)) = ScanSize(n.cidr)
        /\ \A ones \in Prefixes : ScanSize(Cidr(0, ones)) <= TotalIPs(Cidr(0, ones))

\* with the overlapping pools: the row of 10.0.0.2, released, is owned again
\* under the id of pool B, pool B is used to 100% and pool A, whose only
\* address that is, reports no used address
C36_Witness ==
    /\ networks = {PoolA30, PoolB29, PoolP30}
    /\ released
    /\ Owned(leases, IntToIP(Net10 + 2))
    /\ leases[IntToIP(Net10 + 2)].network_id = "B"
    /\ Cardinality(UsedIn(leases, "B")) = TotalIPs(PoolB29.cidr)
    /\ UsedIn(leases, "A") = {}

\* ------------------------------------------------------------- job store
\* CreateJob: the row is persisted PENDING with attempt_count 0
CreateJob(js, id, type, target, req) ==
    [js EXCEPT ![id] = [NoRow EXCEPT !.status = "PENDING", !.type = type,
                                     !.target = target, !.req = req]]

\* the id uuid.New() gives: one never issued before
CanIssue(js) == \E j \in DOMAIN js : js[j].status = "NONE"
FreshId(js) == CHOOSE j \in DOMAIN js : js[j].status = "NONE"

\* DispatchJob: non-blocking send of the id; dropped when the channel is full
DispatchJob(q, id) == IF Len(q) < QueueCap THEN Append(q, id) ELSE q

\* PENDING -> IN_PROGRESS, the dispatch claim; sets started_at
CanClaimAnyRow(row) == row.status \notin {"NONE", "DELETED"}

CanClaim(row) == row.status = "PENDING"

MarkInProgress(js, id, t) ==
    IF CanClaim(js[id])
    THEN [js EXCEPT ![id].status = "IN_PROGRESS", ![id].started_at = t]
    ELSE js

\* IN_PROGRESS -> COMPLETED | FAILED; sets finished_at and the error
CanFinishUnclaimed(row) == row.status \in {"PENDING", "IN_PROGRESS"}

CanFinish(row) == row.status = "IN_PROGRESS"

MarkFinished(js, id, status, err, t) ==
    IF CanFinish(js[id])
    THEN [js EXCEPT ![id].status = status, ![id].error = err, ![id].finished_at = t]
    ELSE js

\* a failed attempt is counted on the row
CountAttempt(js, id) ==
    IF HasRow(js, id) /\ js[id].status \notin Terminal
    THEN [js EXCEPT ![id].attempt_count = @ + 1]
    ELSE js

\* RecoverStuckJobs(staleAfter): IN_PROGRESS for longer than staleAfter goes
\* back to PENDING with attempt_count + 1
IsStuck(row, staleAfter, t) ==
    row.status = "IN_PROGRESS" /\ t - row.started_at > staleAfter

RecoverStuckJobsFresh(js, staleAfter, t) ==
    [j \in DOMAIN js |->
        IF IsStuck(js[j], staleAfter, t)
        THEN [js[j] EXCEPT !.status = "PENDING", !.attempt_count = 0]
        ELSE js[j]]

RecoverStuckJobs(js, staleAfter, t) ==
    [j \in DOMAIN js |->
        IF IsStuck(js[j], staleAfter, t)
        THEN [js[j] EXCEPT !.status = "PENDING", !.attempt_count = @ + 1]
        ELSE js[j]]

DeleteOldJobsAnyStatus(js, age, t) ==
    [j \in DOMAIN js |->
        IF HasRow(js, j) /\ t - js[j].started_at > age
        THEN [NoRow EXCEPT !.status = "DELETED"]
        ELSE js[j]]

\* DeleteOldJobs(age): purges COMPLETED and FAILED rows finished more than age ago
DeleteOldJobs(js, age, t) ==
    [j \in DOMAIN js |->
        IF js[j].status \in Terminal /\ t - js[j].finished_at > age
        THEN [NoRow EXCEPT !.status = "DELETED"]
        ELSE js[j]]

\* ------------------------------------------------------------- target locks
TryLockAlways(held, target) == TRUE

TryLock(held, target) == target \notin held

\* ------------------------------------------------------------- provider
\* the provider operation of a job: what it does to the live instances, and
\* whether the provider accepts it
ProviderAccepts(ins, row) ==
    CASE row.type = "create_instance" -> row.target \notin DOMAIN ins
      [] row.type = "update_limits"   -> row.target \in DOMAIN ins
      [] row.type = "delete_instance" -> row.target \in DOMAIN ins
      [] OTHER                        -> TRUE

ProviderApply(ins, row) ==
    CASE row.type = "create_instance" -> ins @@ (row.target :> row.req)
      [] row.type = "update_limits"   -> [ins EXCEPT ![row.target] = row.req]
      [] row.type = "delete_instance" -> [n \in DOMAIN ins \ {row.target} |-> ins[n]]
      [] OTHER                        -> ins

\* ------------------------------------------------------------- workers
ReceiveBlocking(w) ==
    /\ workers[w].pc = "idle"
    /\ queue # <<>>
    /\ LET id == Head(queue)
       IN  /\ queue' = Tail(queue)
           /\ IF ~HasRow(jobs, id) \/ ~CanClaim(jobs[id])
              THEN UNCHANGED <<jobs, delayed, locks, workers>>
              ELSE IF ~TryLock(locks, jobs[id].target)
              THEN /\ workers' = [workers EXCEPT ![w] =
                         [IdleWorker EXCEPT !.pc = "blocked", !.job = id,
                                            !.target = jobs[id].target]]
                   /\ UNCHANGED <<jobs, delayed, locks>>
              ELSE /\ locks' = locks \cup {jobs[id].target}
                   /\ jobs' = MarkInProgress(jobs, id, now)
                   /\ workers' = [workers EXCEPT ![w] =
                         [IdleWorker EXCEPT !.pc = "running", !.job = id,
                                            !.target = jobs[id].target]]
                   /\ UNCHANGED delayed
    /\ UNCHANGED <<now, ipamVars, admVars, svcVars>>

\* Steps 1 to 3 for a received id: reload the job from the store, try the lock
\* of its target (held: push a delayed re-dispatch and move on), mark the job
\* IN_PROGRESS (a job that cannot be claimed is let go and the lock released).
Receive(w) ==
    /\ workers[w].pc = "idle"
    /\ \A v \in Workers : v < w => workers[v].pc # "idle"
    /\ queue # <<>>
    /\ LET id == Head(queue)
       IN  /\ queue' = Tail(queue)
           /\ IF ~HasRow(jobs, id)
              THEN UNCHANGED <<jobs, delayed, locks, workers>>
              ELSE IF ~TryLock(locks, jobs[id].target)
              THEN /\ delayed' = delayed \cup {id}
                   /\ UNCHANGED <<jobs, locks, workers>>
              ELSE IF ~CanClaim(jobs[id])
              THEN UNCHANGED <<jobs, delayed, locks, workers>>
              ELSE /\ locks' = locks \cup {jobs[id].target}
                   /\ jobs' = MarkInProgress(jobs, id, now)
                   /\ workers' = [workers EXCEPT ![w] =
                         [IdleWorker EXCEPT !.pc = "running", !.job = id,
                                            !.target = jobs[id].target]]
                   /\ UNCHANGED delayed
    /\ UNCHANGED <<now, ipamVars, admVars, svcVars>>

ExecuteOneMore(w, outcome) ==
    /\ workers[w].pc = "running"
    /\ LET id  == workers[w].job
           row == jobs[id]
       IN  IF outcome = "ok" /\ ProviderAccepts(instances, row)
           THEN /\ instances' = ProviderApply(instances, row)
                /\ leases' = IF row.type = "create_instance"
                             THEN AllocateIP(leases, networks, row.target, now).ls
                             ELSE leases
                /\ jobs' = MarkFinished(jobs, id, "COMPLETED", "", now)
                /\ locks' = locks \ {workers[w].target}
                /\ workers' = [workers EXCEPT ![w] = IdleWorker]
           ELSE IF workers[w].tries >= MaxAttempts
           THEN /\ jobs' = MarkFinished(CountAttempt(jobs, id), id, "FAILED", outcome, now)
                /\ locks' = locks \ {workers[w].target}
                /\ workers' = [workers EXCEPT ![w] = IdleWorker]
                /\ UNCHANGED <<instances, leases>>
           ELSE /\ jobs' = CountAttempt(jobs, id)
                /\ workers' = [workers EXCEPT ![w].tries = @ + 1]
                /\ UNCHANGED <<instances, leases, locks>>
    /\ UNCHANGED <<queue, delayed, now, resp, networks, alloc, live, released,
                   conflict, nAlloc, lastIP, pristine, svcVars>>

\* Steps 4 to 7: one provider call under the timeout of the job type. Success:
\* side effects, COMPLETED, lock released. Failure (error or timeout): counted,
\* retried after the backoff, and at the attempt ceiling FAILED with the last
\* error, lock released.
Execute(w, outcome) ==
    /\ workers[w].pc = "running"
    /\ LET id  == workers[w].job
           row == jobs[id]
       IN  IF outcome = "ok" /\ ProviderAccepts(instances, row)
           THEN /\ instances' = ProviderApply(instances, row)
                /\ leases' = IF row.type = "create_instance"
                             THEN AllocateIP(leases, networks, row.target, now).ls
                             ELSE leases
                /\ jobs' = MarkFinished(jobs, id, "COMPLETED", "", now)
                /\ locks' = locks \ {workers[w].target}
                /\ workers' = [workers EXCEPT ![w] = IdleWorker]
           ELSE IF workers[w].tries + 1 >= MaxAttempts
           THEN /\ jobs' = MarkFinished(CountAttempt(jobs, id), id, "FAILED", outcome, now)
                /\ locks' = locks \ {workers[w].target}
                /\ workers' = [workers EXCEPT ![w] = IdleWorker]
                /\ UNCHANGED <<instances, leases>>
           ELSE /\ jobs' = CountAttempt(jobs, id)
                /\ workers' = [workers EXCEPT ![w].tries = @ + 1]
                /\ UNCHANGED <<instances, leases, locks>>
    /\ UNCHANGED <<queue, delayed, now, resp, networks, alloc, live, released,
                   conflict, nAlloc, lastIP, pristine, svcVars>>

AbortKeepLock(w) ==
    /\ workers[w].pc = "running"
    /\ workers' = [workers EXCEPT ![w] = IdleWorker]
    /\ UNCHANGED <<jobs, queue, delayed, locks, now, ipamVars, admVars, svcVars>>

\* Step 7, the unexpected abort of an execution: the lock is released on that
\* path too; the row stays as it is
Abort(w) ==
    /\ workers[w].pc = "running"
    /\ locks' = locks \ {workers[w].target}
    /\ workers' = [workers EXCEPT ![w] = IdleWorker]
    /\ UNCHANGED <<jobs, queue, delayed, now, ipamVars, admVars, svcVars>>

\* the delayed re-dispatch of a job whose target was locked
Redispatch(id) ==
    /\ id \in delayed
    /\ delayed' = delayed \ {id}
    /\ queue' = DispatchJob(queue, id)
    /\ UNCHANGED <<jobs, locks, workers, now, ipamVars, admVars, svcVars>>

\* a dispatch signal delivered again for a job of the store
Redeliver(id) ==
    /\ HasRow(jobs, id)
    /\ Len(queue) < QueueCap
    /\ queue' = DispatchJob(queue, id)
    /\ UNCHANGED <<jobs, delayed, locks, workers, now, ipamVars, admVars, svcVars>>

\* ------------------------------------------------------------- maintenance
\* RunMaintenance: DeleteOldJobs(7 days), then RecoverStuckJobs(5 minutes); an
\* error of either is logged and the run goes on
RunMaintenanceNoThreshold(delOk, recOk) ==
    /\ LET kept == IF delOk THEN DeleteOldJobs(jobs, Retention, now) ELSE jobs
       IN  jobs' = IF recOk THEN RecoverStuckJobs(kept, 0, now) ELSE kept
    /\ UNCHANGED <<queue, delayed, locks, workers, now, ipamVars, admVars, svcVars>>

RunMaintenance(delOk, recOk) ==
    /\ LET kept == IF delOk THEN DeleteOldJobs(jobs, Retention, now) ELSE jobs
       IN  jobs' = IF recOk THEN RecoverStuckJobs(kept, StaleAfter, now) ELSE kept
    /\ UNCHANGED <<queue, delayed, locks, workers, now, ipamVars, admVars, svcVars>>

\* the instants at which the clock is observed
TimePoints == {0, 9, 10, Retention + 10}

Tick ==
    /\ now' \in {t \in TimePoints : t > now}
    /\ UNCHANGED <<jobs, queue, delayed, locks, workers, ipamVars, admVars, svcVars>>

\* ------------------------------------------------------------- handlers
\* POST /instances/:name/state
PostState(name, dbOk) ==
    /\ CanIssue(jobs)
    /\ LET jobID == FreshId(jobs)
       IN  IF dbOk
           THEN /\ jobs' = CreateJob(jobs, jobID, "state_change", name, NoReq)
                /\ queue' = DispatchJob(queue, jobID)
                /\ resp' = [code |-> 202, job |-> jobID, req |-> NoReq]
           ELSE /\ resp' = [code |-> 500, job |-> NoJob, req |-> NoReq]
                /\ UNCHANGED <<jobs, queue>>
    /\ UNCHANGED <<delayed, locks, workers, now, instances, ipamVars, svcVars>>

\* ------------------------------------------------------------- SpecJobs
JobsInit ==
    /\ networks = {PoolA29}
    /\ leases = [ip \in {} |-> Row(NULL, NULL, "A")]
    /\ alloc = [p \in Procs |-> IdleAlloc]
    /\ live = {}
    /\ released = FALSE
    /\ conflict = FALSE
    /\ nAlloc = 0
    /\ lastIP = NoResult
    /\ pristine = FALSE
    /\ JobsQuiet
    /\ AdmitQuiet
    /\ SvcQuiet

JobsNext ==
    \/ \E name \in Targets, dbOk \in BOOLEAN : PostState(name, dbOk)
    \/ \E w \in Workers : Receive(w)
    \/ \E w \in Workers, outcome \in {"ok", "provider error"} : Execute(w, outcome)
    \/ \E w \in Workers : Abort(w)
    \/ \E id \in JobIds : Redispatch(id)
    \/ \E id \in JobIds : Redeliver(id)

\* the worker pool on its own: the clock stands still and no sweep runs
SpecJobs == JobsInit /\ [][JobsNext]_vars

Running(w) == workers[w].pc = "running"

\* C3: no two workers are between "mark IN_PROGRESS" and "release target lock"
\* for jobs of the same target, under every interleaving; a worker in that
\* interval holds the lock of the target of the job it runs.
C3_NoOverlap ==
    /\ \A w \in Workers :
          Running(w) => /\ workers[w].target = jobs[workers[w].job].target
                        /\ workers[w].target \in locks
    /\ \A w1, w2 \in Workers :
          (w1 # w2 /\ Running(w1) /\ Running(w2)) => workers[w1].target # workers[w2].target

\* two jobs of different targets execute at the same time
C3_Witness ==
    \E w1, w2 \in Workers :
        /\ Running(w1) /\ Running(w2)
        /\ workers[w1].job # workers[w2].job
        /\ workers[w1].target # workers[w2].target
        /\ jobs[workers[w1].job].status = "IN_PROGRESS"
        /\ jobs[workers[w2].job].status = "IN_PROGRESS"

\* ------------------------------------------------------------- SpecPool
\* the worker pool with three jobs over two targets; a provider call ends
\* well, with an error, or by the timeout of the job type
PoolJobIds == JobIds \cup {"j3"}
Outcomes == {"ok", "provider error", "timeout"}

PoolInit ==
    /\ networks = {PoolA29}
    /\ leases = [ip \in {} |-> Row(NULL, NULL, "A")]
    /\ alloc = [p \in Procs |-> IdleAlloc]
    /\ live = {}
    /\ released = FALSE
    /\ conflict = FALSE
    /\ nAlloc = 0
    /\ lastIP = NoResult
    /\ pristine = FALSE
    /\ jobs = [j \in PoolJobIds |-> NoRow]
    /\ queue = <<>>
    /\ delayed = {}
    /\ locks = {}
    /\ workers = [w \in Workers |-> IdleWorker]
    /\ now = 0
    /\ AdmitQuiet
    /\ SvcQuiet

PoolNext ==
    \/ \E name \in Targets, dbOk \in BOOLEAN : PostState(name, dbOk)
    \/ \E w \in Workers : Receive(w)
    \/ \E w \in Workers, outcome \in Outcomes : Execute(w, outcome)
    \/ \E w \in Workers : Abort(w)
    \/ \E id \in PoolJobIds : Redispatch(id)
    \/ \E id \in PoolJobIds : Redeliver(id)

SpecPool == PoolInit /\ [][PoolNext]_vars

\* C12: a target is locked only while a worker is executing a job of it: when
\* a worker has stopped processing a job (success, provider failure, timeout,
\* exhausted retries, abort) the lock of the target is free again, so a later
\* job of the same target acquires it.
C12_LockHeldOnlyWhileRunning ==
    \A t \in locks : \E w \in Workers : Running(w) /\ workers[w].target = t

\* one job of a target failed by timeout at the attempt ceiling, one was left
\* by an aborted execution, and a third job of the same target now holds the lock
C12_Witness ==
    \E j, k, l \in PoolJobIds, w \in Workers :
        /\ jobs[j].status = "FAILED" /\ jobs[j].error = "timeout"
        /\ jobs[k].status = "IN_PROGRESS"
        /\ \A v \in Workers : workers[v].job # k
        /\ Running(w) /\ workers[w].job = l
        /\ jobs[j].target = jobs[l].target /\ jobs[k].target = jobs[l].target
        /\ locks = {jobs[l].target}

JobsFairNext ==
    \/ \E name \in Targets, dbOk \in BOOLEAN : PostState(name, dbOk)
    \/ \E w \in Workers : Receive(w)
    \/ \E w \in Workers, outcome \in Outcomes : Execute(w, outcome)
    \/ \E id \in JobIds : Redispatch(id)
    \/ \E id \in JobIds : Redeliver(id)

JobsFairness ==
    /\ \A w \in Workers : WF_vars(Receive(w))
    /\ \A w \in Workers : WF_vars(\E outcome \in Outcomes : Execute(w, outcome))
    /\ \A id \in JobIds : WF_vars(Redispatch(id))

SpecJobsFair == JobsInit /\ [][JobsFairNext]_vars /\ JobsFairness

\* the write of FAILED for job j made in this step
FailsNow(j) == jobs[j].status # "FAILED" /\ jobs'[j].status = "FAILED"

LifeNext ==
    \/ \E dbOk \in BOOLEAN : PostState("t1", dbOk)
    \/ \E w \in Workers : Receive(w)
    \/ \E w \in Workers, outcome \in {"ok", "provider error"} : Execute(w, outcome)
    \/ \E w \in Workers : Abort(w)
    \/ \E id \in JobIds : Redispatch(id)
    \/ \E id \in JobIds : Redeliver(id)
    \/ \E delOk \in BOOLEAN, recOk \in BOOLEAN : RunMaintenance(delOk, recOk)
    \/ Tick

SpecLife == JobsInit /\ [][LifeNext]_vars

StaleNow(row) == row.status = "IN_PROGRESS" /\ now - row.started_at > 5
Reset(row) == [row EXCEPT !.status = "PENDING", !.attempt_count = @ + 1]
Purged(old, new) ==
    /\ old.status \in Terminal /\ new.status = "DELETED"
    /\ now - old.finished_at > 7 * 24 * 60

\* the steps of the status of one row that the state machine allows
StatusStep(old, new) ==
    \/ new.status = old.status
    \/ old.status = "NONE" /\ new.status = "PENDING"
    \/ old.status = "PENDING" /\ new.status = "IN_PROGRESS"
    \/ old.status = "IN_PROGRESS" /\ new.status \in Terminal
    \/ old.status = "IN_PROGRESS" /\ new.status = "PENDING"
          /\ StaleNow(old) /\ new = Reset(old)
          /\ now' = now /\ workers' = workers /\ queue' = queue /\ resp' = resp
    \/ Purged(old, new)

\* C4: every change of a job's status is a step of PENDING -> IN_PROGRESS ->
\* {COMPLETED, FAILED}; the only backward step is IN_PROGRESS -> PENDING, made
\* by the sweep alone (no worker, queue or handler moves in that step) and only
\* for a job IN_PROGRESS for longer than the stale threshold; attempt_count
\* never decreases while the row lives.
C4_StatusOrder ==
    [][\A j \in JobIds :
          /\ StatusStep(jobs[j], jobs'[j])
          /\ HasRow(jobs', j) /\ HasRow(jobs, j)
                => jobs'[j].attempt_count >= jobs[j].attempt_count]_vars

\* a job recovered by the sweep has been run again to completion
C4_Witness ==
    \E j \in JobIds :
        /\ jobs[j].status = "COMPLETED"
        /\ jobs[j].attempt_count = 1
        /\ jobs[j].started_at = 10

\* C5: a row that is COMPLETED or FAILED is changed by no later step (a worker
\* receiving the id again, a retry, RecoverStuckJobs): status, error,
\* finished_at, attempt_count and the rest stay; the row only goes by the
\* retention cleanup, once finished for longer than the retention.
C5_TerminalFinal ==
    [][\A j \in JobIds :
          jobs[j].status \in Terminal
              => jobs'[j] = jobs[j] \/ Purged(jobs[j], jobs'[j])]_vars

\* a finished job whose id is in the channel again, after a sweep that reset
\* the other job
C5_Witness ==
    \E j, k \in JobIds :
        /\ jobs[j].status \in Terminal
        /\ jobs[j].finished_at < now
        /\ queue = <<j>>
        /\ jobs[k].status = "PENDING" /\ jobs[k].started_at # NoTime

\* a row past the retention age of the maintenance pass
PastRetention(row) == row.status \in Terminal /\ now - row.finished_at > Retention

\* C34: DeleteOldJobs removes only jobs that are COMPLETED or FAILED and
\* older than the retention age, 7 days in the maintenance pass: no step
\* removes a row that is PENDING or IN_PROGRESS, whatever its age, nor a
\* terminal row not older than the retention age, and DeleteOldJobs applied to
\* the table of any state removes exactly the terminal rows past the age and
\* leaves every other row as it is.
C34_PurgeOnlyOldTerminal ==
    /\ [][\A j \in JobIds :
              (HasRow(jobs, j) /\ ~HasRow(jobs', j)) =>
                  /\ jobs[j].status \notin {"PENDING", "IN_PROGRESS"}
                  /\ PastRetention(jobs[j])]_vars
    /\ [](\A j \in JobIds :
              LET kept == DeleteOldJobs(jobs, Retention, now)
              IN  /\ PastRetention(jobs[j]) => ~HasRow(kept, j)
                  /\ ~PastRetention(jobs[j]) => kept[j] = jobs[j])

\* one job finished at minute 0 has been purged after the retention age,
\* while the other, claimed before and as old, is still IN_PROGRESS or back
\* to PENDING
C34_Witness ==
    \E j, k \in JobIds :
        /\ jobs[j].status = "DELETED"
        /\ jobs[k].status \in {"PENDING", "IN_PROGRESS"}
        /\ jobs[k].started_at # NoTime
        /\ now - jobs[k].started_at > Retention

\* C6: a sweep that resets a job resets exactly the jobs IN_PROGRESS for longer
\* than 5 minutes, each to PENDING with attempt_count + 1 and nothing else
\* changed; every other row is left as it is (or purged by the cleanup of the
\* same run).
C6_RecoverExactly ==
    [][(\E j \in JobIds : jobs[j].status = "IN_PROGRESS" /\ jobs'[j].status = "PENDING")
          => \A j \in JobIds :
                IF StaleNow(jobs[j])
                THEN jobs'[j] = Reset(jobs[j])
                ELSE jobs'[j] = jobs[j] \/ Purged(jobs[j], jobs'[j])]_vars

\* at minute 10 a job started at minute 0 is PENDING again with attempt_count
\* 0 -> 1, and a job started at minute 9 is still IN_PROGRESS, untouched
C6_Witness ==
    \E j, k \in JobIds :
        /\ now = 10
        /\ jobs[j].status = "PENDING" /\ jobs[j].started_at = 0
        /\ jobs[j].attempt_count = 1
        /\ jobs[k].status = "IN_PROGRESS" /\ jobs[k].started_at = 9
        /\ jobs[k].attempt_count = 0

\* a worker takes up the execution of a job in this step
Starts(w) ==
    /\ workers'[w].pc = "running"
    /\ workers[w].pc # "running" \/ workers[w].job # workers'[w].job

\* C14: however often an id is delivered (duplicate dispatch, lock-busy
\* re-dispatch, re-dispatch after recovery), a worker takes up a job only while
\* its row is PENDING and no other worker is executing it: no job is executed
\* by two workers at once, and none is executed once COMPLETED or FAILED.
C14_DuplicateHarmless ==
    [][/\ \A w \in Workers :
             Starts(w) =>
                 /\ jobs[workers'[w].job].status = "PENDING"
                 /\ \A v \in Workers \ {w} :
                        ~(Running(v) /\ workers[v].job = workers'[w].job)
       /\ \A w \in Workers :
             Running(w) => jobs[workers[w].job].status \notin Terminal
       /\ \A w1, w2 \in Workers :
             (w1 # w2 /\ Running(w1) /\ Running(w2)) => workers[w1].job # workers[w2].job]_vars

\* a job reset by the sweep is executed again while its id is in the channel
\* once more and the id of a finished job waits in the delayed set
C14_Witness ==
    \E w \in Workers, k \in JobIds :
        /\ Running(w)
        /\ queue = <<workers[w].job>>
        /\ jobs[workers[w].job].attempt_count >= 1
        /\ jobs[workers[w].job].started_at = 10
        /\ jobs[k].status \in Terminal /\ k \in delayed

\* ------------------------------------------------------------- SpecLifeFair
\* The jobs of one target under fair scheduling and with workers that never
\* abort: a worker with an id in the channel takes it, a provider call
\* returns, a pending delayed re-dispatch fires, the maintenance timer fires
\* and the clock advances. Nothing re-sends the id of a stored job (the
\* handlers dispatch once, RunMaintenance dispatches nothing), so a redelivery
\* may happen but has no fairness.
FairNext ==
    \/ \E dbOk \in BOOLEAN : PostState("t1", dbOk)
    \/ \E w \in Workers : Receive(w)
    \/ \E w \in Workers, outcome \in {"ok", "provider error"} : Execute(w, outcome)
    \/ \E id \in JobIds : Redispatch(id)
    \/ \E id \in JobIds : Redeliver(id)
    \/ \E delOk \in BOOLEAN, recOk \in BOOLEAN : RunMaintenance(delOk, recOk)
    \/ Tick

LifeFairness ==
    /\ \A w \in Workers : WF_vars(Receive(w))
    /\ \A w \in Workers : WF_vars(\E outcome \in {"ok", "provider error"} : Execute(w, outcome))
    /\ \A id \in JobIds : WF_vars(Redispatch(id))
    /\ WF_vars(\E delOk \in BOOLEAN, recOk \in BOOLEAN : RunMaintenance(delOk, recOk))
    /\ WF_vars(Tick)

SpecLifeFair == JobsInit /\ [][FairNext]_vars /\ LifeFairness

\* C15: every job persisted as PENDING is eventually COMPLETED or FAILED, also
\* when its dispatch signal was dropped by the full channel.
C15_DroppedEventuallyRuns ==
    \A j \in JobIds :
        (jobs[j].status = "PENDING") ~> (jobs[j].status \in Terminal)

\* C17: attempt_count is 0 on the row CreateJob persists, and no later write
\* (a worker's claim, counted attempt or final status, the sweep's reset)
\* makes it smaller while the row exists.
C17_AttemptsMonotone ==
    [][\A j \in JobIds :
          /\ (~HasRow(jobs, j) /\ HasRow(jobs', j))
                => jobs'[j].status = "PENDING" /\ jobs'[j].attempt_count = 0
          /\ (HasRow(jobs, j) /\ HasRow(jobs', j))
                => jobs'[j].attempt_count >= jobs[j].attempt_count]_vars

\* a job with a failed attempt counted by a worker and a reset counted by the
\* sweep, claimed again afterwards
C17_Witness ==
    \E j \in JobIds :
        /\ jobs[j].status = "IN_PROGRESS"
        /\ jobs[j].started_at = 10
        /\ jobs[j].attempt_count = 2

\* ------------------------------------------------------------- admission
\* Limite Global Atual: 8 vCPU, 8 GB RAM (memory in MB)
MaxCPU == 8
MaxRAM == 8 * 1024

RECURSIVE SumOf(_, _, _)
SumOf(ins, names, field) ==
    IF names = {} THEN 0
    ELSE LET n == CHOOSE x \in names : TRUE
         IN  ins[n][field] + SumOf(ins, names \ {n}, field)

\* CPU and RAM in use across the live instances of the provider
UsedCPU(ins) == SumOf(ins, DOMAIN ins, "cpu")
UsedRAM(ins) == SumOf(ins, DOMAIN ins, "ram")

\* CheckGlobalQuota: TRUE when the request fits, FALSE for QuotaExceeded
CheckGlobalQuotaAtCeiling(ins, cpu, ram) ==
    ~(UsedCPU(ins) + cpu >= MaxCPU \/ UsedRAM(ins) + ram >= MaxRAM)

CheckGlobalQuota(ins, cpu, ram) ==
    ~(UsedCPU(ins) + cpu > MaxCPU \/ UsedRAM(ins) + ram > MaxRAM)

\* the limits a request may carry: reqCpu, reqRam (MB)
Reqs ==
    {[cpu |-> 1, ram |-> 512], [cpu |-> 2, ram |-> 512], [cpu |-> 7, ram |-> 512],
     [cpu |-> 1, ram |-> 7680]}

\* the handler body shared by the admitted job-creating routes: quota check,
\* CreateJob, DispatchJob, the response
AdmitDispatchFirst(type, name, req, dbOk) ==
    IF ~CheckGlobalQuota(instances, req.cpu, req.ram)
    THEN /\ resp' = [code |-> 409, job |-> NoJob, req |-> req]
         /\ UNCHANGED <<jobs, queue>>
    ELSE LET jobID == FreshId(jobs)
         IN  /\ queue' = DispatchJob(queue, jobID)
             /\ jobs' = IF dbOk THEN CreateJob(jobs, jobID, type, name, req) ELSE jobs
             /\ resp' = IF dbOk THEN [code |-> 202, job |-> jobID, req |-> req]
                        ELSE [code |-> 500, job |-> NoJob, req |-> req]

Admit(type, name, req, dbOk) ==
    IF ~CheckGlobalQuota(instances, req.cpu, req.ram)
    THEN /\ resp' = [code |-> 409, job |-> NoJob, req |-> req]
         /\ UNCHANGED <<jobs, queue>>
    ELSE IF ~dbOk
    THEN /\ resp' = [code |-> 500, job |-> NoJob, req |-> req]
         /\ UNCHANGED <<jobs, queue>>
    ELSE LET jobID == FreshId(jobs)
         IN  /\ jobs' = CreateJob(jobs, jobID, type, name, req)
             /\ queue' = DispatchJob(queue, jobID)
             /\ resp' = [code |-> 202, job |-> jobID, req |-> req]

\* POST /instances
PostInstancesPersistFirst(name, req, dbOk) ==
    /\ CanIssue(jobs)
    /\ LET jobID == FreshId(jobs)
       IN  /\ jobs' = CreateJob(jobs, jobID, "create_instance", name, req)
           /\ queue' = DispatchJob(queue, jobID)
           /\ resp' = IF CheckGlobalQuota(instances, req.cpu, req.ram)
                      THEN [code |-> 202, job |-> jobID, req |-> req]
                      ELSE [code |-> 409, job |-> NoJob, req |-> req]
    /\ UNCHANGED <<delayed, locks, workers, now, instances, ipamVars, svcVars>>

PostInstances(name, req, dbOk) ==
    /\ CanIssue(jobs)
    /\ Admit("create_instance", name, req, dbOk)
    /\ UNCHANGED <<delayed, locks, workers, now, instances, ipamVars, svcVars>>

\* POST /instances/:name/limits
PostLimits(name, req, dbOk) ==
    /\ CanIssue(jobs)
    /\ Admit("update_limits", name, req, dbOk)
    /\ UNCHANGED <<delayed, locks, workers, now, instances, ipamVars, svcVars>>

\* DELETE /instances/:name: no quota check
DeleteInstances(name, dbOk) ==
    /\ CanIssue(jobs)
    /\ LET jobID == FreshId(jobs)
       IN  IF dbOk
           THEN /\ jobs' = CreateJob(jobs, jobID, "delete_instance", name, NoReq)
                /\ queue' = DispatchJob(queue, jobID)
                /\ resp' = [code |-> 202, job |-> jobID, req |-> NoReq]
           ELSE /\ resp' = [code |-> 500, job |-> NoJob, req |-> NoReq]
                /\ UNCHANGED <<jobs, queue>>
    /\ UNCHANGED <<delayed, locks, workers, now, instances, ipamVars, svcVars>>

\* ------------------------------------------------------------- SpecAdmit
\* an instance found running at startup: 7 of the 8 vCPU in use
Imported == [n \in {"t0"} |-> [cpu |-> 7, ram |-> 512]]

AdmitInit ==
    /\ networks = {PoolA29}
    /\ leases = [ip \in {} |-> Row(NULL, NULL, "A")]
    /\ alloc = [p \in Procs |-> IdleAlloc]
    /\ live = {}
    /\ released = FALSE
    /\ conflict = FALSE
    /\ nAlloc = 0
    /\ lastIP = NoResult
    /\ pristine = FALSE
    /\ JobsQuiet
    /\ instances \in {NoInstances, Imported}
    /\ resp = NoResp
    /\ SvcQuiet

AdmitNext ==
    \/ \E name \in Targets, req \in Reqs, dbOk \in BOOLEAN : PostInstances(name, req, dbOk)
    \/ \E name \in Targets, req \in Reqs, dbOk \in BOOLEAN : PostLimits(name, req, dbOk)
    \/ \E w \in Workers : Receive(w)
    \/ \E w \in Workers, outcome \in {"ok", "provider error"} : Execute(w, outcome)
    \/ \E id \in JobIds : Redispatch(id)

SpecAdmit == AdmitInit /\ [][AdmitNext]_vars

\* C7: a request is answered 409 QuotaExceeded exactly when CPU in use plus
\* requested CPU is strictly over 8 or RAM in use plus requested RAM is strictly
\* over 8192 MB; a sum that lands on the ceiling is admitted.
C7_QuotaBoundary ==
    [][resp' # resp =>
          (resp'.code = 409 <=>
              \/ UsedCPU(instances) + resp'.req.cpu > 8
              \/ UsedRAM(instances) + resp'.req.ram > 8192)]_vars

\* one vCPU asked with 7 of 8 in use: admitted, the job persisted
C7_Witness ==
    /\ UsedCPU(instances) = 7
    /\ resp.code = 202 /\ resp.req.cpu = 1
    /\ jobs[resp.job].status = "PENDING"
    /\ jobs[resp.job].req = resp.req

\* C8: the step that answers 409 creates no job row, dispatches no id and
\* changes nothing else of the system.
C8_RejectedNoJob ==
    [][(resp' # resp /\ resp'.code = 409) =>
          /\ jobs' = jobs /\ queue' = queue /\ delayed' = delayed
          /\ instances' = instances /\ workers' = workers /\ locks' = locks]_vars

\* requestedCPU = 2 with 7 of 8 vCPU in use: 409 and zero job rows
C8_Witness ==
    /\ UsedCPU(instances) = 7
    /\ resp.code = 409 /\ resp.req.cpu = 2
    /\ \A j \in JobIds : jobs[j].status = "NONE"
    /\ queue = <<>>

\* C9: the aggregate CPU and RAM of the live instances never exceeds the
\* global ceiling of 8 vCPU and 8 GB.
C9_NoOvercommit ==
    /\ UsedCPU(instances) <= 8
    /\ UsedRAM(instances) <= 8192

\* ------------------------------------------------------------- SpecAccept
\* the three admitting routes of an instance's life: create, limits, delete
AcceptNext ==
    \/ AdmitNext
    \/ \E name \in Targets, dbOk \in BOOLEAN : DeleteInstances(name, dbOk)

SpecAccept == AdmitInit /\ [][AcceptNext]_vars

\* a handler answered in this step
Answered == resp' # resp
\* how often id is in the dispatch queue
InQueue(q, id) == Cardinality({i \in 1..Len(q) : q[i] = id})

\* C27: admission is ordered quota check, persist, dispatch, accept: an id put
\* on the dispatch queue by a handler is that of a row the same request has
\* just persisted, PENDING with attempt_count 0; a request refused by the quota
\* or failing in CreateJob persists and dispatches nothing; 202 carries the id
\* of a persisted job; so every id on the queue or in a worker's hands has a
\* Job row.
C27_PersistBeforeDispatch ==
    /\ [][Answered =>
            /\ \A id \in JobIds :
                  InQueue(queue', id) > InQueue(queue, id) =>
                      /\ ~HasRow(jobs, id)
                      /\ jobs'[id].status = "PENDING" /\ jobs'[id].attempt_count = 0
                      /\ resp'.code = 202 /\ resp'.job = id
            /\ resp'.code \in {409, 500} => jobs' = jobs /\ queue' = queue
            /\ resp'.code = 202 =>
                  /\ ~HasRow(jobs, resp'.job)
                  /\ jobs'[resp'.job].status = "PENDING"
                  /\ jobs'[resp'.job].attempt_count = 0
                  /\ \A id \in JobIds \ {resp'.job} : jobs'[id] = jobs[id]]_vars
    /\ [](\A i \in 1..Len(queue) : HasRow(jobs, queue[i]))
    /\ [](\A w \in Workers : workers[w].job # NoJob => HasRow(jobs, workers[w].job))

\* a delete job admitted with 202 is in a worker's hands, its row claimed
C27_Witness ==
    /\ resp.code = 202
    /\ jobs[resp.job].type = "delete_instance"
    /\ jobs[resp.job].status = "IN_PROGRESS"
    /\ \E w \in Workers : workers[w].job = resp.job /\ workers[w].pc = "running"

\* ------------------------------------------------------------- reconciliation
InstNames == {"c1", "c2"}
\* how often the startup sync is run against one listing
MaxSyncs == 2

\* strings.ToUpper of the statuses the provider reports
ToUpper(st) ==
    CASE st = "Running" -> "RUNNING"
      [] st = "Stopped" -> "STOPPED"
      [] OTHER -> st

\* m[k] = v and delete(m, k) on a map[string]string
MapSet(m, k, v) == [x \in DOMAIN m \cup {k} |-> IF x = k THEN v ELSE m[x]]
MapDelete(m, k) == [x \in DOMAIN m \ {k} |-> m[x]]

\* fmt.Errorf("instance not found: %s", name), what Get makes of sql.ErrNoRows
InstanceNotFound(name) == "instance not found: " \o name
DbFault == "driver: bad connection"

\* InstanceRepository.Get, behind db.GetInstance
Get(st, name, queryFails) ==
    IF queryFails THEN [err |-> DbFault, inst |-> <<>>]
    ELSE IF name \notin DOMAIN st THEN [err |-> InstanceNotFound(name), inst |-> <<>>]
    ELSE [err |-> "",
          inst |-> [st[name] EXCEPT !.backup_retention = IF @ = 0 THEN 7 ELSE @]]

\* InstanceRepository.Create: INSERT INTO instances, name being unique
Create(st, inst, insertFails) ==
    IF insertFails \/ inst.name \in DOMAIN st THEN [ok |-> FALSE, st |-> st]
    ELSE [ok |-> TRUE, st |-> st @@ (inst.name :> inst)]

\* InstanceRepository.UpdateLimits: UPDATE instances SET limits = $1 WHERE name = $2
UpdateLimitsWholeRow(st, name, limits, updateFails) ==
    IF updateFails \/ name \notin DOMAIN st THEN [ok |-> FALSE, st |-> st]
    ELSE [ok |-> TRUE,
          st |-> [st EXCEPT ![name] = [@ EXCEPT !.limits = limits, !.user_data = "",
                                                !.backup_enabled = FALSE]]]

UpdateLimits(st, name, limits, updateFails) ==
    IF updateFails \/ name \notin DOMAIN st THEN [ok |-> FALSE, st |-> st]
    ELSE [ok |-> TRUE, st |-> [st EXCEPT ![name].limits = limits]]

\* the record RunStartupSync builds for an instance it imports
NewInstance(li) ==
    [name |-> li.Name, image |-> li.Config["volatile.base_image"], limits |-> li.Config,
     user_data |-> "", type |-> li.Type, backup_schedule |-> "@daily", backup_retention |-> 7,
     backup_enabled |-> FALSE]

\* the limits map after the refresh of an instance found in the table
RefreshLimitsKeepPrevious(limits, li) ==
    MapSet(MapSet(limits, "status.previous",
                  IF "status" \in DOMAIN limits THEN limits["status"] ELSE ""),
           "status", ToUpper(li.Status))

RefreshLimits(limits, li) ==
    IF li.stateErr THEN MapSet(limits, "status", ToUpper(li.Status))
    ELSE LET l4 == IF li.ipv4 # "" THEN MapSet(limits, "volatile.ipv4", li.ipv4)
                   ELSE MapDelete(limits, "volatile.ipv4")
             l6 == IF li.ipv6 # "" THEN MapSet(l4, "volatile.ipv6", li.ipv6)
                   ELSE MapDelete(l4, "volatile.ipv6")
         IN  MapSet(l6, "status", ToUpper(li.Status))

\* the body of the loop for one listed instance; fault: the database call that
\* fails for it ("none", "query", "create", "update"). failed: an error was logged
SyncOne(st, li, fault) ==
    LET g == Get(st, li.Name, fault = "query")
    IN  IF g.err # ""
        THEN IF g.err = ErrNoRows
             THEN LET c == Create(st, NewInstance(li), fault = "create")
                  IN  [st |-> c.st, failed |-> ~c.ok]
             ELSE [st |-> st, failed |-> TRUE]
        ELSE LET u == UpdateLimits(st, li.Name, RefreshLimits(g.inst.limits, li),
                                   fault = "update")
             IN  [st |-> u.st, failed |-> ~u.ok \/ li.stateErr]

\* for _, lxdInstance := range lxdInstances
RECURSIVE SyncAllAbort(_, _, _)
SyncAllAbort(st, list, faults) ==
    IF list = <<>> THEN st
    ELSE LET r == SyncOne(st, Head(list), faults[Head(list).Name])
         IN  IF r.failed THEN r.st ELSE SyncAllAbort(r.st, Tail(list), faults)

RECURSIVE SyncAll(_, _, _)
SyncAll(st, list, faults) ==
    IF list = <<>> THEN st
    ELSE SyncAll(SyncOne(st, Head(list), faults[Head(list).Name]).st, Tail(list), faults)

\* ListInstances failing ends the sync before the loop
RunStartupSync(st, l, faults) == IF l.err THEN st ELSE SyncAll(st, l.list, faults)

Faults == [InstNames -> {"none", "query", "create", "update"}]
NoFaults == [n \in InstNames |-> "none"]

\* what the provider may report of one instance
LxdInstance(name) ==
    [Name : {name}, Status : {"Running", "Stopped"}, Type : {"container"},
     Config : {("volatile.base_image" :> "ubuntu/24.04") @@ ("limits.cpu" :> "1")},
     stateErr : BOOLEAN, ipv4 : {"", "10.0.0.2"}, ipv6 : {"", "fd42::2"}]

\* the listings: any of the instances, in name order
Listings ==
    {<<>>} \cup {<<a>> : a \in LxdInstance("c1") \cup LxdInstance("c2")}
           \cup {<<a, b>> : a \in LxdInstance("c1"), b \in LxdInstance("c2")}

\* rows written before the restart: by a create job, or by an earlier sync
StoredRows(name) ==
    {[name |-> name, image |-> "ubuntu/24.04", limits |-> l,
      user_data |-> "#cloud-config", type |-> "container",
      backup_schedule |-> "@daily", backup_retention |-> 7, backup_enabled |-> FALSE] :
        l \in {("limits.cpu" :> "1"),
               ("limits.cpu" :> "1") @@ ("status" :> "RUNNING") @@ ("volatile.ipv4" :> "10.0.0.9")}}

Stores ==
    {NoStore} \cup {(r.name :> r) : r \in StoredRows("c1") \cup StoredRows("c2")}
              \cup {(a.name :> a) @@ (b.name :> b) : a \in StoredRows("c1"), b \in StoredRows("c2")}

\* ------------------------------------------------------------- SpecSync
SyncInit ==
    /\ networks = {PoolA29}
    /\ leases = [ip \in {} |-> Row(NULL, NULL, "A")]
    /\ alloc = [p \in Procs |-> IdleAlloc]
    /\ live = {}
    /\ released = FALSE
    /\ conflict = FALSE
    /\ nAlloc = 0
    /\ lastIP = NoResult
    /\ pristine = FALSE
    /\ JobsQuiet
    /\ AdmitQuiet
    /\ store \in Stores
    /\ lxd \in [err : BOOLEAN, list : Listings, syncs : {0}]
    /\ bus = IdleBus
    /\ sched = SchedOff
    /\ schema = NoSchema

\* the process starts: RunStartupSync runs once, against what the provider reports
Startup(faults) ==
    /\ lxd.syncs < MaxSyncs
    /\ store' = RunStartupSync(store, lxd, faults)
    /\ lxd' = [lxd EXCEPT !.syncs = @ + 1]
    /\ UNCHANGED <<bus, sched, schema, ipamVars, jobVars, admVars>>

SyncNext == \E faults \in Faults : Startup(faults)

SpecSync == SyncInit /\ [][SyncNext]_vars

\* C22: after RunStartupSync (no database fault, the listing obtained) every
\* listed instance that was absent from the Instance Store has a record there,
\* with the default backup policy @daily / 7 / disabled.
C22_ImportsAbsent ==
    ~lxd.err =>
        LET after == RunStartupSync(store, lxd, NoFaults)
        IN  \A i \in 1..Len(lxd.list) :
                LET name == lxd.list[i].Name
                IN  name \notin DOMAIN store =>
                        /\ name \in DOMAIN after
                        /\ after[name].backup_schedule = "@daily"
                        /\ after[name].backup_retention = 7
                        /\ after[name].backup_enabled = FALSE

\* C23: RunStartupSync run twice against the same provider report leaves the
\* Instance Store after the second run equal to the store after the first: no
\* record added, removed or imported twice, every limits map equal.
C23_SyncIdempotent ==
    LET first  == RunStartupSync(store, lxd, NoFaults)
        second == RunStartupSync(first, lxd, NoFaults)
    IN  /\ second = first
        /\ DOMAIN second = DOMAIN first
        /\ \A n \in DOMAIN first : second[n].limits = first[n].limits

\* the sync has run twice and refreshed the status and address of a stored instance
C23_Witness ==
    /\ lxd.syncs = 2
    /\ ~lxd.err
    /\ \E i \in 1..Len(lxd.list) :
          LET li == lxd.list[i]
          IN  /\ li.Name \in DOMAIN store
              /\ ~li.stateErr /\ li.ipv4 # ""
              /\ "status" \in DOMAIN store[li.Name].limits
              /\ store[li.Name].limits["status"] = ToUpper(li.Status)
              /\ store[li.Name].limits["volatile.ipv4"] = li.ipv4

Observed4(li) == IF li.stateErr THEN "" ELSE li.ipv4
Observed6(li) == IF li.stateErr THEN "" ELSE li.ipv6

\* C33: for a listed instance that the Instance Store already has, after
\* RunStartupSync (no database fault) the limits map holds volatile.ipv4
\* (volatile.ipv6) exactly when the provider reports such an address, then with
\* that address, and status is the provider's status in upper case; a key left
\* by an earlier run is gone when the address is no longer observed, also when
\* the get-state call fails.
C33_RefreshedAddresses ==
    ~lxd.err =>
        LET after == RunStartupSync(store, lxd, NoFaults)
        IN  \A i \in 1..Len(lxd.list) :
                LET li == lxd.list[i]
                IN  li.Name \in DOMAIN store =>
                        LET lim == after[li.Name].limits
                        IN  /\ "volatile.ipv4" \in DOMAIN lim <=> Observed4(li) # ""
                            /\ "volatile.ipv6" \in DOMAIN lim <=> Observed6(li) # ""
                            /\ Observed4(li) # "" => lim["volatile.ipv4"] = Observed4(li)
                            /\ Observed6(li) # "" => lim["volatile.ipv6"] = Observed6(li)
                            /\ "status" \in DOMAIN lim /\ lim["status"] = ToUpper(li.Status)

\* the names the provider lists
Listed == {lxd.list[i].Name : i \in 1..Len(lxd.list)}

\* C38: RunStartupSync removes nothing from the Instance Store and touches
\* only what it reconciles, whatever database call fails: every stored
\* instance is still stored, one that the provider does not list is unchanged,
\* of one that is listed only the limits map may differ (image, user_data,
\* type and the backup settings keep their values), and when the provider's
\* list call fails the store is left as it was.
C38_SyncFrame ==
    /\ [](\A faults \in Faults :
            LET after == RunStartupSync(store, lxd, faults)
            IN  /\ DOMAIN store \subseteq DOMAIN after
                /\ \A n \in DOMAIN store :
                      /\ after[n] = [store[n] EXCEPT !.limits = after[n].limits]
                      /\ n \notin Listed => after[n] = store[n]
                /\ lxd.err => after = store)
    /\ [][/\ DOMAIN store \subseteq DOMAIN store'
          /\ \A n \in DOMAIN store :
                /\ store'[n] = [store[n] EXCEPT !.limits = store'[n].limits]
                /\ n \notin Listed => store'[n] = store[n]
          /\ lxd.err => store' = store]_vars

\* after a sync over a listing of one instance: the listed instance has the
\* status and the IPv6 address the sync wrote and its user_data and backup
\* settings as stored, the other stored instance has never been refreshed
C38_Witness ==
    /\ lxd.syncs >= 1
    /\ ~lxd.err
    /\ Len(lxd.list) = 1
    /\ \E a, b \in DOMAIN store :
          /\ a \in Listed /\ b \notin Listed
          /\ "volatile.ipv6" \in DOMAIN store[a].limits
          /\ store[a].limits["status"] = ToUpper(lxd.list[1].Status)
          /\ store[a].user_data = "#cloud-config"
          /\ store[a].backup_schedule = "@daily"
          /\ store[b] \in StoredRows(b)

\* ------------------------------------------------------------- event bus
\* var GlobalBus = make(chan Event, 1000)
BusCap == 1000
\* how many events the consumer takes while the publisher goes on
MaxReceived == 2

\* Publish: select { case GlobalBus <- evt: default: }. An event is named by the
\* number of the Publish call that carries it.
PublishBlocking(evt) ==
    /\ bus.published < BusCap + MaxReceived + 2
    /\ Len(bus.queue) < BusCap
    /\ bus' = [bus EXCEPT !.queue = Append(@, evt), !.published = @ + 1]
    /\ UNCHANGED <<store, lxd, sched, schema, ipamVars, jobVars, admVars>>

Publish(evt) ==
    /\ bus.published < BusCap + MaxReceived + 2
    /\ bus' = [bus EXCEPT !.queue = IF Len(@) < BusCap THEN Append(@, evt) ELSE @,
                          !.published = @ + 1]
    /\ UNCHANGED <<store, lxd, sched, schema, ipamVars, jobVars, admVars>>

\* the consumer: evt := <-GlobalBus
Consume ==
    /\ bus.queue # <<>>
    /\ Len(bus.received) < MaxReceived
    /\ bus' = [bus EXCEPT !.queue = Tail(@), !.received = Append(@, Head(bus.queue))]
    /\ UNCHANGED <<store, lxd, sched, schema, ipamVars, jobVars, admVars>>

\* ------------------------------------------------------------- SpecBus
BusInit == JobsInit

BusNext ==
    \/ Publish(bus.published + 1)
    \/ Consume

SpecBus == BusInit /\ [][BusNext]_vars

\* the events in s are in the order of their Publish calls
InPublishOrder(s) == \A i \in 1..(Len(s) - 1) : s[i] < s[i + 1]

\* C25: Publish never waits for the consumer: it can always be taken, whatever
\* the channel holds; with 1000 undelivered events it drops the new event and
\* leaves the queued ones as they are, below that it queues the event; and the
\* events accepted reach the consumer in publish order.
C25_PublishNeverBlocks ==
    /\ [](bus.published < BusCap + MaxReceived + 2 => ENABLED Publish(bus.published + 1))
    /\ [](Len(bus.queue) <= BusCap)
    /\ [](InPublishOrder(bus.received \o bus.queue))
    /\ [][bus'.published = bus.published + 1 =>
            /\ bus'.received = bus.received
            /\ Len(bus.queue) = BusCap => bus'.queue = bus.queue
            /\ Len(bus.queue) < BusCap => bus'.queue = Append(bus.queue, bus'.published)]_vars

\* an event was dropped on the full bus, and an event published later, after
\* the consumer had made room, was accepted
C25_Witness ==
    /\ bus.published = BusCap + 2
    /\ Len(bus.received) = 1
    /\ Len(bus.queue) = BusCap
    /\ bus.queue[BusCap] = BusCap + 2
    /\ bus.queue[BusCap - 1] = BusCap

\* ------------------------------------------------------------- maintenance scheduler
\* ticks the ticker delivers before the context is cancelled or the run ends
MaxTicks == 2

\* RunMaintenance as a function: the four steps in order, each with the flag
\* telling whether its database call succeeds; what it returns
RunMaintenanceStepsAbort(js, t, metOk, delOk, recOk, vacOk) ==
    LET kept == DeleteOldJobs(js, Retention, t)
        rec  == RecoverStuckJobs(kept, StaleAfter, t)
        m == [step |-> "metrics", ok |-> metOk]
        d == [step |-> "old jobs", ok |-> delOk]
        r == [step |-> "stuck jobs", ok |-> recOk]
        v == [step |-> "vacuum", ok |-> vacOk]
    IN  IF ~metOk THEN [jobs |-> js, ran |-> <<m>>, returned |-> "error"]
        ELSE IF ~delOk THEN [jobs |-> js, ran |-> <<m, d>>, returned |-> "error"]
        ELSE IF ~recOk THEN [jobs |-> kept, ran |-> <<m, d, r>>, returned |-> "error"]
        ELSE [jobs |-> rec, ran |-> <<m, d, r, v>>,
              returned |-> IF vacOk THEN "nil" ELSE "error"]

RunMaintenanceSteps(js, t, metOk, delOk, recOk, vacOk) ==
    LET kept == IF delOk THEN DeleteOldJobs(js, Retention, t) ELSE js
        rec  == IF recOk THEN RecoverStuckJobs(kept, StaleAfter, t) ELSE kept
    IN  [jobs |-> rec,
         ran |-> <<[step |-> "metrics", ok |-> metOk], [step |-> "old jobs", ok |-> delOk],
                   [step |-> "stuck jobs", ok |-> recOk], [step |-> "vacuum", ok |-> vacOk]>>,
         returned |-> "nil"]

\* go StartMaintenanceScheduler(ctx, db, interval): the ticker is created
StartMaintenanceScheduler ==
    /\ sched.pc = "off"
    /\ sched' = [sched EXCEPT !.pc = "select"]
    /\ UNCHANGED <<store, lxd, bus, schema, ipamVars, jobVars, admVars>>

\* the ticker sends on ticker.C, a channel of one: a tick that finds the last
\* one not yet taken is dropped
TickerFires ==
    /\ sched.pc = "select"
    /\ sched.passes < MaxTicks
    /\ ~sched.tick
    /\ sched' = [sched EXCEPT !.tick = TRUE]
    /\ UNCHANGED <<store, lxd, bus, schema, ipamVars, jobVars, admVars>>

\* the owner of the context cancels it
Cancel ==
    /\ sched.pc # "off"
    /\ ~sched.cancelled
    /\ sched' = [sched EXCEPT !.cancelled = TRUE]
    /\ UNCHANGED <<store, lxd, bus, schema, ipamVars, jobVars, admVars>>

\* case <-ticker.C: RunMaintenance(ctx, db), its error logged
SchedulerPass(metOk, delOk, recOk, vacOk) ==
    /\ sched.pc = "select"
    /\ sched.tick
    /\ LET r == RunMaintenanceSteps(jobs, now, metOk, delOk, recOk, vacOk)
       IN  /\ jobs' = r.jobs
           /\ sched' = [sched EXCEPT !.tick = FALSE, !.passes = @ + 1, !.ran = r.ran,
                                     !.returned = r.returned,
                                     !.oldMetrics = IF metOk THEN FALSE ELSE @]
    /\ UNCHANGED <<queue, delayed, locks, workers, now, store, lxd, bus, schema, ipamVars, admVars>>

\* case <-ctx.Done(): return
SchedulerStop ==
    /\ sched.pc = "select"
    /\ sched.cancelled
    /\ sched' = [sched EXCEPT !.pc = "stopped"]
    /\ UNCHANGED <<store, lxd, bus, schema, ipamVars, jobVars, admVars>>

\* ------------------------------------------------------------- SpecSched
\* a jobs row as the job engine leaves it: never issued, PENDING, claimed at
\* minute 0 by a worker that died, or COMPLETED at minute 0
RowAt(stage) ==
    LET none    == [j \in {"j1"} |-> NoRow]
        created == CreateJob(none, "j1", "state_change", "t1", NoReq)
        claimed == MarkInProgress(created, "j1", 0)
        done    == MarkFinished(claimed, "j1", "COMPLETED", "", 0)
    IN  CASE stage = "none"    -> none["j1"]
          [] stage = "pending" -> created["j1"]
          [] stage = "claimed" -> claimed["j1"]
          [] stage = "done"    -> done["j1"]

SchedInit ==
    /\ networks = {PoolA29}
    /\ leases = [ip \in {} |-> Row(NULL, NULL, "A")]
    /\ alloc = [p \in Procs |-> IdleAlloc]
    /\ live = {}
    /\ released = FALSE
    /\ conflict = FALSE
    /\ nAlloc = 0
    /\ lastIP = NoResult
    /\ pristine = FALSE
    /\ jobs \in {[j \in JobIds |-> RowAt(f[j])] :
                    f \in [JobIds -> {"none", "pending", "claimed", "done"}]}
    /\ queue = <<>>
    /\ delayed = {}
    /\ locks = {}
    /\ workers = [w \in Workers |-> IdleWorker]
    /\ now = 0
    /\ AdmitQuiet
    /\ store = NoStore
    /\ lxd = NoListing
    /\ bus = IdleBus
    /\ sched \in {[SchedOff EXCEPT !.oldMetrics = b] : b \in BOOLEAN}
    /\ schema = NoSchema

SchedNext ==
    \/ StartMaintenanceScheduler
    \/ TickerFires
    \/ Cancel
    \/ \E metOk \in BOOLEAN, delOk \in BOOLEAN, recOk \in BOOLEAN, vacOk \in BOOLEAN :
          SchedulerPass(metOk, delOk, recOk, vacOk)
    \/ SchedulerStop
    \/ Tick

\* the select takes a case that is ready: a pending tick is served and a
\* cancelled context is noticed
SchedFairness ==
    /\ WF_vars(\E metOk \in BOOLEAN, delOk \in BOOLEAN, recOk \in BOOLEAN, vacOk \in BOOLEAN :
                  SchedulerPass(metOk, delOk, recOk, vacOk))
    /\ WF_vars(SchedulerStop)

SpecSched == SchedInit /\ [][SchedNext]_vars /\ SchedFairness

\* a maintenance pass is taken in this step
PassStep == sched'.passes = sched.passes + 1

\* C26: a maintenance pass runs its four steps whatever fails: a failed metrics
\* cleanup or DeleteOldJobs does not keep RecoverStuckJobs from resetting the
\* stuck jobs, a failed step does not keep DeleteOldJobs from purging, and
\* RunMaintenance returns nil; the scheduler serves every tick it is given
\* while it runs, stops only on a cancelled context, and stops once cancelled.
C26_MaintenanceGoesOn ==
    /\ [][PassStep =>
            /\ Len(sched'.ran) = 4
            /\ sched'.returned = "nil"
            /\ sched'.ran[1].ok => ~sched'.oldMetrics
            /\ sched'.ran[2].ok =>
                  \A j \in JobIds :
                      (jobs[j].status \in Terminal /\ now - jobs[j].finished_at > Retention)
                          => jobs'[j].status = "DELETED"
            /\ sched'.ran[3].ok =>
                  \A j \in JobIds :
                      (jobs[j].status = "IN_PROGRESS" /\ now - jobs[j].started_at > StaleAfter)
                          => jobs'[j].status = "PENDING"]_vars
    /\ [][sched'.pc = "stopped" => sched.cancelled]_vars
    /\ [][sched.pc = "select" => sched'.pc \in {"select", "stopped"}]_vars
    /\ (sched.pc = "select" /\ sched.tick) ~> (~sched.tick \/ sched.pc = "stopped")
    /\ (sched.pc = "select" /\ sched.cancelled) ~> (sched.pc = "stopped")

\* a second pass, after a first one, in which the metrics cleanup and
\* DeleteOldJobs failed and the stuck job was recovered all the same
C26_Witness ==
    /\ sched.passes = 2
    /\ sched.pc = "select"
    /\ ~sched.ran[1].ok /\ ~sched.ran[2].ok /\ sched.ran[3].ok
    /\ sched.oldMetrics
    /\ \E j \in JobIds : jobs[j].status = "PENDING" /\ jobs[j].attempt_count = 1
    /\ \E j \in JobIds : jobs[j].status = "COMPLETED" /\ now - jobs[j].finished_at > Retention

\* ------------------------------------------------------------- schema migrations
\* calls of RunMigrations and RollbackMigration in one behaviour
MaxRuns == 3
\* var migrations = []Migration{...}: five entries, versions 1 to 5 in slice
\* order; the Down script of migration 4 drops schema_migrations itself
NumMigrations == 5
migrations == [i \in 1..NumMigrations |-> [Version |-> i, DropsTracking |-> (i = 4)]]
Versions == {migrations[i].Version : i \in 1..NumMigrations}

\* SELECT COALESCE(MAX(version), 0) FROM schema_migrations
getCurrentVersion(recorded) ==
    IF recorded = {} THEN 0 ELSE CHOOSE v \in recorded : \A w \in recorded : w <= v

\* applyMigration: BeginTx, the Up script, INSERT INTO schema_migrations,
\* Commit, with defer tx.Rollback(): nothing stays unless all of it succeeds.
\* version is the primary key of schema_migrations.
applyMigrationNoTx(sc, m, upOk, recordOk, commitOk) ==
    IF ~upOk THEN [ok |-> FALSE, recorded |-> sc.recorded, applied |-> sc.applied]
    ELSE IF recordOk /\ m.Version \notin sc.recorded /\ commitOk
    THEN [ok |-> TRUE, recorded |-> sc.recorded \cup {m.Version},
          applied |-> sc.applied \cup {m.Version}]
    ELSE [ok |-> FALSE, recorded |-> sc.recorded, applied |-> sc.applied \cup {m.Version}]

applyMigration(sc, m, upOk, recordOk, commitOk) ==
    IF upOk /\ recordOk /\ m.Version \notin sc.recorded /\ commitOk
    THEN [ok |-> TRUE, recorded |-> sc.recorded \cup {m.Version},
          applied |-> sc.applied \cup {m.Version}]
    ELSE [ok |-> FALSE, recorded |-> sc.recorded, applied |-> sc.applied]

\* RunMigrations up to the loop: ensureSchemaMigrationsTable, getCurrentVersion
StartRunMigrations(ensureOk, versionOk) ==
    /\ schema.pc = "idle"
    /\ schema.calls < MaxRuns
    /\ schema' =
         IF ~ensureOk
         THEN [schema EXCEPT !.op = "migrate", !.calls = @ + 1, !.appliedCount = 0,
                             !.returned = "failed to create schema_migrations table"]
         ELSE IF ~versionOk
         THEN [schema EXCEPT !.op = "migrate", !.calls = @ + 1, !.appliedCount = 0,
                             !.returned = "failed to get current version"]
         ELSE [schema EXCEPT !.op = "migrate", !.calls = @ + 1, !.appliedCount = 0,
                             !.returned = "", !.pc = "migrate", !.i = 1,
                             !.current = getCurrentVersion(schema.recorded)]
    /\ UNCHANGED <<store, lxd, bus, sched, ipamVars, jobVars, admVars>>

\* one turn of "for _, migration := range migrations", or the return after it
MigrateStep(upOk, recordOk, commitOk) ==
    /\ schema.pc = "migrate"
    /\ schema' =
         IF schema.i > NumMigrations
         THEN [schema EXCEPT !.pc = "idle", !.returned = "nil"]
         ELSE IF migrations[schema.i].Version <= schema.current
         THEN [schema EXCEPT !.i = @ + 1]
         ELSE LET r == applyMigration(schema, migrations[schema.i], upOk, recordOk, commitOk)
              IN  IF r.ok
                  THEN [schema EXCEPT !.recorded = r.recorded, !.applied = r.applied,
                                      !.appliedCount = @ + 1, !.i = @ + 1]
                  ELSE [schema EXCEPT !.recorded = r.recorded, !.applied = r.applied,
                                      !.pc = "idle", !.returned = "failed to apply migration"]
    /\ UNCHANGED <<store, lxd, bus, sched, ipamVars, jobVars, admVars>>

\* RollbackMigration up to the loop
StartRollback(targetVersion, versionOk) ==
    /\ schema.pc = "idle"
    /\ schema.calls < MaxRuns
    /\ LET currentVersion == getCurrentVersion(schema.recorded)
       IN  schema' =
             IF ~versionOk
             THEN [schema EXCEPT !.op = "rollback", !.calls = @ + 1,
                                 !.returned = "failed to get current version"]
             ELSE IF targetVersion >= currentVersion
             THEN [schema EXCEPT !.op = "rollback", !.calls = @ + 1,
                       !.returned = "target version must be less than current version"]
             ELSE [schema EXCEPT !.op = "rollback", !.calls = @ + 1, !.returned = "",
                                 !.pc = "rollback", !.i = NumMigrations,
                                 !.current = currentVersion, !.target = targetVersion]
    /\ UNCHANGED <<store, lxd, bus, sched, ipamVars, jobVars, admVars>>

\* one turn of "for i := len(migrations) - 1; i >= 0; i--": a transaction with
\* the Down script and the DELETE of the record. After the Down script of
\* migration 4 the DELETE finds no schema_migrations table and fails, and the
\* transaction, the DROP included, is rolled back.
RollbackStep(downOk, deleteOk, commitOk) ==
    /\ schema.pc = "rollback"
    /\ schema' =
         IF schema.i < 1
         THEN [schema EXCEPT !.pc = "idle", !.returned = "nil"]
         ELSE LET m == migrations[schema.i]
              IN  IF m.Version <= schema.target \/ m.Version > schema.current
                  THEN [schema EXCEPT !.i = @ - 1]
                  ELSE IF ~downOk
                  THEN [schema EXCEPT !.pc = "idle", !.returned = "failed to rollback migration"]
                  ELSE IF ~deleteOk \/ m.DropsTracking
                  THEN [schema EXCEPT !.pc = "idle",
                                      !.returned = "failed to delete migration record"]
                  ELSE IF ~commitOk
                  THEN [schema EXCEPT !.pc = "idle", !.returned = "commit failed"]
                  ELSE [schema EXCEPT !.recorded = @ \ {m.Version},
                                      !.applied = @ \ {m.Version}, !.i = @ - 1]
    /\ UNCHANGED <<store, lxd, bus, sched, ipamVars, jobVars, admVars>>

\* the process is stopped between two transactions of a run
Killed ==
    /\ schema.pc \in {"migrate", "rollback"}
    /\ schema' = [schema EXCEPT !.pc = "idle", !.returned = "killed"]
    /\ UNCHANGED <<store, lxd, bus, sched, ipamVars, jobVars, admVars>>

\* ------------------------------------------------------------- SpecMigrate
\* a fresh database
MigrateInit == AllocInit /\ networks = {PoolA29} /\ leases = [ip \in {} |-> Row(NULL, NULL, "A")]

MigrateNext ==
    \/ \E ensureOk \in BOOLEAN, versionOk \in BOOLEAN : StartRunMigrations(ensureOk, versionOk)
    \/ \E upOk \in BOOLEAN, recordOk \in BOOLEAN, commitOk \in BOOLEAN :
          MigrateStep(upOk, recordOk, commitOk)
    \/ \E targetVersion \in 0..NumMigrations, versionOk \in BOOLEAN :
          StartRollback(targetVersion, versionOk)
    \/ \E downOk \in BOOLEAN, deleteOk \in BOOLEAN, commitOk \in BOOLEAN :
          RollbackStep(downOk, deleteOk, commitOk)
    \/ Killed

SpecMigrate == MigrateInit /\ [][MigrateNext]_vars

\* the versions of the first k entries of the migration list
VersionPrefix(k) == {migrations[i].Version : i \in 1..k}
\* a step of a RunMigrations run
Migrating == schema.pc = "migrate"

\* C39: RunMigrations applies the pending migrations in ascending version
\* order, each atomically with its schema_migrations record: in every state the
\* recorded versions are those of a prefix of the migration list and are
\* exactly the versions whose Up script is in effect; a step of a run records
\* at most one version, the lowest not recorded; a migration that fails
\* leaves its version unrecorded and ends the run with an error; a run that
\* returns nil leaves every version recorded, and a run started when every
\* version is recorded applies nothing.
C39_MigrationsInOrder ==
    /\ [](\E k \in 0..NumMigrations : schema.recorded = VersionPrefix(k))
    /\ [](schema.applied = schema.recorded)
    /\ [][Migrating =>
            /\ schema'.recorded = schema.recorded
               \/ /\ schema'.recorded = schema.recorded \cup {getCurrentVersion(schema.recorded) + 1}
                  /\ schema'.appliedCount = schema.appliedCount + 1
                  /\ \A v \in schema.recorded : v < getCurrentVersion(schema'.recorded)
            /\ schema'.returned = "failed to apply migration" =>
                  /\ schema'.pc = "idle"
                  /\ schema'.recorded = schema.recorded
                  /\ migrations[schema.i].Version \notin schema'.recorded
            /\ schema'.returned = "nil" => schema'.recorded = Versions
            /\ schema.current = getCurrentVersion(Versions) =>
                  /\ schema'.recorded = schema.recorded
                  /\ schema'.appliedCount = 0
                  /\ schema'.returned \in {"", "nil", "killed"}]_vars

\* RunMigrations has run twice on a fresh database: the second run, after the
\* first had applied all five migrations, applied nothing and returned nil
C39_Witness ==
    /\ schema.calls = 2
    /\ schema.op = "migrate"
    /\ schema.pc = "idle"
    /\ schema.returned = "nil"
    /\ schema.appliedCount = 0
    /\ schema.recorded = Versions

====
